---------------------------- MODULE Spec2Model ----------------------------
(***************************************************************************)
(* Model of the mandacafe backend: the in-memory metrics aggregator        *)
(* (middleware/monitoring), the authentication middleware and routers,     *)
(* and the dish (prato) controllers with their two persistence adapters.   *)
(*                                                                         *)
(* JavaScript runs every synchronous function to completion, so one action *)
(* is one synchronous run: a middleware call, a callback, or the part of   *)
(* an async handler between two awaits.                                    *)
(***************************************************************************)
EXTENDS Integers, Naturals, Sequences, FiniteSets, Bags, TLC

VARIABLES
    metrics,    \* the module-level `metrics` object: group name -> reference
    heap,       \* the objects the references denote
    inflight,   \* bag of registered res.on('finish') callbacks
    now,        \* Date.now(), in milliseconds
    snapshot,   \* the value getMetrics() returned last, as held by its caller
    health,     \* the value getHealthStatus() returned last
    recorded,   \* history: how many response times were recorded, their sum,
                \* and the durations of the database operations recorded
    adminHits,  \* adminRateLimit's store: client address -> hits in the window
    loginHits,  \* authRateLimit's store: client address -> hits in the window
    reply,      \* the response the auth middleware or the login route sent last
    router,     \* which routes/admin.js is mounted: the JWT one or the trivial one
    backend,    \* which models/ database the controllers were built with
    pratos,     \* the stored dishes: the pratos table, or pratos.json
    seq,        \* last value of the sequence pratos_id_prato_seq
    reqs,       \* the controllers' requests, in order of arrival
    globalHits, \* the global limiter's store: client address -> hits in the window
    served,     \* what the application did with the request it handled last
    proc        \* the Node.js process: its signal handlers and its exit

monVars == <<metrics, heap, inflight, now, snapshot, health, recorded>>
gateVars == <<adminHits, loginHits, reply, router>>
dbVars == <<backend, pratos, seq, reqs>>
appVars == <<globalHits, served, proc>>

vars == <<monVars, gateVars, dbVars, appVars>>

-----------------------------------------------------------------------------
(* Bounds of the model.                                                    *)

MaxReq == 3         \* requests counted by one metrics object
MaxInflight == 2    \* responses pending at once
MaxTicks == 3       \* clock steps per run
MaxResets == 1      \* resetMetrics() calls per run
MaxErrors == 2      \* errors counted by one metrics object
MaxEach == 2        \* recordings per metrics object, next to resets

-----------------------------------------------------------------------------
(* JavaScript numbers.  A finite value is the exact rational n/d; the      *)
(* special values of IEEE-754 arithmetic that a division by zero produces  *)
(* are kept apart.  The durations of the model are multiples of TickMs and *)
(* the counts are small, so the finite quotients are exact doubles.        *)

RECURSIVE GCD(_, _)
GCD(a, b) == IF b = 0 THEN a ELSE GCD(b, a % b)

Abs(i) == IF i < 0 THEN -i ELSE i

Num(n, d) ==
    LET g == GCD(Abs(n), d)
    IN  IF n = 0 THEN [k |-> "num", n |-> 0, d |-> 1]
        ELSE [k |-> "num", n |-> n \div g, d |-> d \div g]

NaN == [k |-> "NaN", n |-> 0, d |-> 1]
PosInf == [k |-> "Infinity", n |-> 0, d |-> 1]
NegInf == [k |-> "-Infinity", n |-> 0, d |-> 1]
Zero == Num(0, 1)

\* a * i, for an integer i
Mul(a, i) ==
    CASE a.k = "NaN" -> NaN
      [] a.k = "Infinity" -> IF i > 0 THEN PosInf ELSE IF i < 0 THEN NegInf ELSE NaN
      [] a.k = "-Infinity" -> IF i > 0 THEN NegInf ELSE IF i < 0 THEN PosInf ELSE NaN
      [] OTHER -> Num(a.n * i, a.d)

\* a + i, for an integer i
Add(a, i) ==
    IF a.k = "num" THEN Num(a.n + i * a.d, a.d) ELSE a

\* a / i, for an integer i >= 0
Div(a, i) ==
    CASE a.k = "NaN" -> NaN
      [] a.k = "Infinity" -> PosInf
      [] a.k = "-Infinity" -> NegInf
      [] i = 0 -> IF a.n > 0 THEN PosInf ELSE IF a.n < 0 THEN NegInf ELSE NaN
      [] OTHER -> Num(a.n, a.d * i)

\* a > i, for an integer i (every comparison with NaN is false)
Gt(a, i) ==
    CASE a.k = "NaN" -> FALSE
      [] a.k = "Infinity" -> TRUE
      [] a.k = "-Infinity" -> FALSE
      [] OTHER -> a.n > i * a.d

IsFinite(a) == a.k = "num"

-----------------------------------------------------------------------------
(* The metrics object (monitoring, lines 4-31).                            *)

Groups == {"requests", "performance", "errors", "database", "security"}

EmptyMap == [x \in {} |-> 0]

\* map[key] = (map[key] || 0) + 1
Incr(map, key) ==
    IF key \in DOMAIN map
    THEN [map EXCEPT ![key] = @ + 1]
    ELSE map @@ (key :> 1)

FreshGroup(g) ==
    CASE g = "requests" ->
            [total |-> 0, byMethod |-> EmptyMap, byStatus |-> EmptyMap,
             byEndpoint |-> EmptyMap]
      [] g = "performance" ->
            [averageResponseTime |-> Zero, slowRequests |-> 0, fastRequests |-> 0]
      [] g = "errors" ->
            [total |-> 0, byType |-> EmptyMap, last24h |-> << >>]
      [] g = "database" ->
            [queries |-> 0, averageQueryTime |-> Zero, slowQueries |-> 0]
      [] g = "security" ->
            [suspiciousRequests |-> 0, blockedIPs |-> {}, rateLimitHits |-> 0]

\* An object is named by the generation that created it and the field of
\* `metrics` it was created for: generation 0 is the module's load.
Ref(gen, g) == <<gen, g>>
GenOf(ref) == ref[1]

Max(S) == CHOOSE x \in S : \A y \in S : y <= x

CurrentGen == Max({GenOf(metrics[g]) : g \in Groups})

NoSnapshot == [taken |-> FALSE]
NoHealth == [status |-> "none"]

\* the objects still referenced by `metrics` or by the caller's snapshot
Live(m, s) ==
    {m[g] : g \in Groups} \cup
    (IF s.taken THEN {s[g] : g \in Groups} ELSE {})

Collect(h, m, s) == [r \in (DOMAIN h) \cap Live(m, s) |-> h[r]]

\* the object of group g as `metrics` sees it
M(g) == heap[metrics[g]]

MonInit ==
    /\ metrics = [g \in Groups |-> Ref(0, g)]
    /\ heap = [r \in {Ref(0, g) : g \in Groups} |-> FreshGroup(r[2])]
    /\ inflight = EmptyBag
    /\ now = 0
    /\ snapshot = NoSnapshot
    /\ health = NoHealth
    /\ recorded = [n |-> 0, sum |-> 0, queries |-> << >>]


-----------------------------------------------------------------------------
(* Requests as the monitoring middleware sees them.  metricsCollector is   *)
(* mounted with app.use before any router, so req.route is not set yet     *)
(* when it runs and the endpoint is req.path.                              *)

NoRoute == "undefined"

Requests ==
    { [method |-> "GET", path |-> "/health", route |-> NoRoute],
      [method |-> "POST", path |-> "/api/admin/pratos", route |-> NoRoute] }

StatusCodes == {200, 500}

TickMs == 1000 + 500

\* const endpoint = req.route ? req.route.path : req.path
Endpoint(req) == IF req.route # NoRoute THEN req.route ELSE req.path

One(e) == SetToBag({e})

\* the clock advances by d milliseconds
Tick(d) ==
    /\ now' = now + d
    /\ UNCHANGED <<metrics, heap, inflight, snapshot, health, recorded, gateVars, dbVars, appVars>>

\* the three increments of metricsCollector, applied to heap h
CountRequest(h, m, req) ==
    [h EXCEPT ![m["requests"]] =
        [@ EXCEPT !.total = @ + 1,
                  !.byMethod = Incr(@, req.method),
                  !.byEndpoint = Incr(@, Endpoint(req))]]

\* the response whose 'finish' event metricsCollector listens for
Pended(req, startTime) == [method |-> req.method, url |-> req.path, startTime |-> startTime]

\* metricsCollector(req, res, next): the synchronous part
metricsCollector(req) ==
    /\ heap' = CountRequest(heap, metrics, req)
    /\ inflight' = inflight (+) One(Pended(req, now))
    /\ UNCHANGED <<metrics, now, snapshot, health, recorded, gateVars, dbVars, appVars>>

\* the new running average: (currentAvg * (n - 1) + x) / n
RunningAverage(currentAvg, n, x) == Div(Add(Mul(currentAvg, n - 1), x), n)

\* the count updatePerformanceMetrics divides by
AverageCount(h, m) == h[m["requests"]].total

\* responseTime > 1000
IsSlow(responseTime) == responseTime > 1000

\* updatePerformanceMetrics(responseTime), applied to heap h
updatePerformanceMetrics(h, m, responseTime) ==
    LET currentAvg == h[m["performance"]].averageResponseTime
        totalRequests == AverageCount(h, m)
    IN  [h EXCEPT ![m["performance"]] =
            [@ EXCEPT !.averageResponseTime =
                          RunningAverage(currentAvg, totalRequests, responseTime),
                      !.slowRequests = IF IsSlow(responseTime) THEN @ + 1 ELSE @,
                      !.fastRequests = IF IsSlow(responseTime) THEN @ ELSE @ + 1]]

\* the res.on('finish') callback of request r, answered with statusCode
onFinish(r, statusCode) ==
    /\ BagIn(r, inflight)
    /\ LET responseTime == now - r.startTime
           h1 == [heap EXCEPT ![metrics["requests"]].byStatus = Incr(@, statusCode)]
       IN  /\ heap' = updatePerformanceMetrics(h1, metrics, responseTime)
           /\ recorded' = [recorded EXCEPT !.n = @ + 1, !.sum = @ + responseTime]
    /\ inflight' = inflight (-) One(r)
    /\ UNCHANGED <<metrics, now, snapshot, health, gateVars, dbVars, appVars>>

-----------------------------------------------------------------------------
(* errorMetrics: the error-handling middleware.                            *)

DayMs == 24 * 60 * 60 * 1000

Errors ==
    { [name |-> "TypeError", message |-> "x is not a function"],
      [name |-> "", message |-> "boom"] }

\* const errorType = error.name || 'UnknownError'
ErrorType(error) == IF error.name # "" THEN error.name ELSE "UnknownError"

Within24hInclusive(err, oneDayAgo) == err.timestamp >= oneDayAgo

\* err.timestamp > oneDayAgo
Within24h(err, oneDayAgo) == err.timestamp > oneDayAgo

\* last24h.filter(err => err.timestamp > oneDayAgo)
Prune(last24h, oneDayAgo) ==
    LET keep(err) == Within24h(err, oneDayAgo)
    IN  SelectSeq(last24h, keep)

errorMetrics(error, req, ip) ==
    /\ LET errorType == ErrorType(error)
           errorEntry == [timestamp |-> now, type |-> errorType,
                          message |-> error.message, url |-> req.path,
                          method |-> req.method, ip |-> ip]
           oneDayAgo == now - DayMs
       IN  heap' = [heap EXCEPT ![metrics["errors"]] =
                       [@ EXCEPT !.total = @ + 1,
                                 !.byType = Incr(@, errorType),
                                 !.last24h = Prune(Append(@, errorEntry), oneDayAgo)]]
    /\ UNCHANGED <<metrics, inflight, now, snapshot, health, recorded, gateVars, dbVars, appVars>>

-----------------------------------------------------------------------------
(* getMetrics, resetMetrics, getHealthStatus.                              *)

\* return { ...metrics, timestamp, uptime, memory, cpu }: the spread copies
\* the five references of `metrics`, not the objects they denote
getMetricsValue(m, t) ==
    [taken |-> TRUE, requests |-> m["requests"], performance |-> m["performance"],
     errors |-> m["errors"], database |-> m["database"], security |-> m["security"],
     timestamp |-> t]

getMetrics ==
    /\ snapshot' = getMetricsValue(metrics, now)
    /\ heap' = Collect(heap, metrics, snapshot')
    /\ UNCHANGED <<metrics, inflight, now, health, recorded, gateVars, dbVars, appVars>>

ResetGroupsPartial == {"requests", "performance"}

\* the groups resetMetrics assigns a new object to
ResetGroups == Groups

ResetValueKeepsHistory(g) ==
    IF g = "errors"
    THEN [FreshGroup(g) EXCEPT !.last24h = M("errors").last24h]
    ELSE FreshGroup(g)

\* the object literal resetMetrics assigns to metrics[g]
ResetValue(g) == FreshGroup(g)

resetMetrics ==
    /\ LET gen == CurrentGen + 1
       IN  /\ metrics' = [g \in Groups |->
                             IF g \in ResetGroups THEN Ref(gen, g) ELSE metrics[g]]
           /\ heap' = Collect(
                  [r \in DOMAIN heap \cup {Ref(gen, g) : g \in ResetGroups} |->
                      IF GenOf(r) = gen THEN ResetValue(r[2]) ELSE heap[r]],
                  metrics', snapshot)
    /\ UNCHANGED <<inflight, now, snapshot, health, recorded, gateVars, dbVars, appVars>>

\* the value a holder of s reads through it
View(h, s) == [g \in Groups |-> h[s[g]]]

MetricsView == [g \in Groups |-> M(g)]
SnapshotView == View(heap, snapshot)

MaxOf(a, b) == IF a > b THEN a ELSE b

\* process.memoryUsage(): readings of heapUsed and heapTotal
MemoryReadings ==
    { [heapUsed |-> 50, heapTotal |-> 100],
      [heapUsed |-> 90, heapTotal |-> 100],
      [heapUsed |-> 91, heapTotal |-> 100] }

HighResponseTime(avg) == Gt(avg, 2000)

HighErrorRateInclusive(errorsTotal, requestsTotal) ==
    errorsTotal * 100 >= 5 * MaxOf(requestsTotal, 1)

\* errors.total / Math.max(requests.total, 1) > 0.05
HighErrorRate(errorsTotal, requestsTotal) ==
    errorsTotal * 100 > 5 * MaxOf(requestsTotal, 1)

\* heapUsed / heapTotal > 0.9
HighMemory(mem) == mem.heapUsed * 10 > 9 * mem.heapTotal

\* the verdict of getHealthStatus() for the metrics m (by value) and the
\* reading mem: health.status, and health.issues where the code sets it.  The
\* rounded figures of health.metrics are not modelled.
getHealthStatusValue(m, mem) ==
    LET criticalIssues ==
            (IF HighResponseTime(m["performance"].averageResponseTime)
                THEN <<"High average response time">> ELSE << >>) \o
            (IF HighErrorRate(m["errors"].total, m["requests"].total)
                THEN <<"High error rate">> ELSE << >>) \o
            (IF HighMemory(mem) THEN <<"High memory usage">> ELSE << >>)
    IN  [status |-> IF Len(criticalIssues) > 0 THEN "WARNING" ELSE "OK",
         hasIssues |-> Len(criticalIssues) > 0,
         issues |-> criticalIssues,
         memory |-> mem]

getHealthStatus(mem) ==
    /\ health' = getHealthStatusValue(MetricsView, mem)
    /\ UNCHANGED <<metrics, heap, inflight, now, snapshot, recorded, gateVars, dbVars, appVars>>

-----------------------------------------------------------------------------
(* recordDatabaseOperation.                                                *)

IsSlowQueryInclusive(duration) == duration >= 500

\* duration > 500
IsSlowQuery(duration) == duration > 500

recordDatabaseOperation(operation, duration) ==
    /\ LET currentAvg == M("database").averageQueryTime
           totalQueries == M("database").queries + 1
       IN  heap' = [heap EXCEPT ![metrics["database"]] =
                       [@ EXCEPT !.queries = totalQueries,
                                 !.averageQueryTime =
                                     RunningAverage(currentAvg, totalQueries, duration),
                                 !.slowQueries =
                                     IF IsSlowQuery(duration) THEN @ + 1 ELSE @]]
    /\ recorded' = [recorded EXCEPT !.queries = Append(@, duration)]
    /\ UNCHANGED <<metrics, inflight, now, snapshot, health, gateVars, dbVars, appVars>>

-----------------------------------------------------------------------------
(* securityMonitor.  A string is the sequence of its characters, so that a *)
(* regular expression /word/i is a case-insensitive search for `word`.     *)

LowerCase ==
    ("A" :> "a") @@ ("B" :> "b") @@ ("C" :> "c") @@ ("D" :> "d") @@
    ("E" :> "e") @@ ("F" :> "f") @@ ("G" :> "g") @@ ("H" :> "h") @@
    ("I" :> "i") @@ ("J" :> "j") @@ ("K" :> "k") @@ ("L" :> "l") @@
    ("M" :> "m") @@ ("N" :> "n") @@ ("O" :> "o") @@ ("P" :> "p") @@
    ("Q" :> "q") @@ ("R" :> "r") @@ ("S" :> "s") @@ ("T" :> "t") @@
    ("U" :> "u") @@ ("V" :> "v") @@ ("W" :> "w") @@ ("X" :> "x") @@
    ("Y" :> "y") @@ ("Z" :> "z")

ToLower(c) == IF c \in DOMAIN LowerCase THEN LowerCase[c] ELSE c

Lowered(str) == [i \in 1..Len(str) |-> ToLower(str[i])]

\* str.includes(word), case-sensitive
Includes(str, word) ==
    \E i \in 0..(Len(str) - Len(word)) :
        \A j \in 1..Len(word) : str[i + j] = word[j]

\* /word/i.test(str)
TestI(word, str) == Includes(Lowered(str), word)

suspiciousPatterns ==
    { <<"s", "q", "l">>,
      <<"u", "n", "i", "o", "n">>,
      <<"s", "e", "l", "e", "c", "t">>,
      <<"d", "r", "o", "p">>,
      <<"d", "e", "l", "e", "t", "e">>,
      <<"s", "c", "r", "i", "p", "t">>,
      <<"<", "s", "c", "r", "i", "p", "t">>,
      <<"j", "a", "v", "a", "s", "c", "r", "i", "p", "t", ":">>,
      <<"e", "v", "a", "l", "(">>,
      <<"e", "x", "p", "r", "e", "s", "s", "i", "o", "n", "(">> }

suspiciousUserAgents ==
    { <<"b", "o", "t">>,
      <<"c", "r", "a", "w", "l", "e", "r">>,
      <<"s", "p", "i", "d", "e", "r">>,
      <<"s", "c", "r", "a", "p", "e", "r">>,
      <<"c", "u", "r", "l">>,
      <<"w", "g", "e", "t">> }

NoBody == << >>

\* `${req.url} ${req.body ? JSON.stringify(req.body) : ''}`; a request's body
\* is given by its JSON text, and NoBody is a req.body that is not set
RequestString(req) == req.url \o <<" ">> \o req.body

IsSuspicious(req) ==
    \E pattern \in suspiciousPatterns : TestI(pattern, RequestString(req))

IsSuspiciousUA(userAgent) ==
    /\ \E pattern \in suspiciousUserAgents : TestI(pattern, userAgent)
    /\ ~Includes(userAgent, <<"G", "o", "o", "g", "l", "e">>)
    /\ ~Includes(userAgent, <<"B", "i", "n", "g">>)

NoJson == [error |-> ""]

\* what a middleware or a route of index.js did with a request: the req
\* object as it left it, the response it sent (status 0: none) and the
\* number of times it called next()
Served(by, req, status, body, nexts) ==
    [by |-> by, req |-> req, status |-> status, body |-> body, nexts |-> nexts]

NoServed == Served("none", << >>, 0, NoJson, 0)

securityMonitorBlocks(req) ==
    IF \E pattern \in suspiciousPatterns : TestI(pattern, RequestString(req))
    THEN Served("securityMonitor", req, 403, NoJson, 0)
    ELSE Served("securityMonitor", req, 0, NoJson, 1)

\* securityMonitor reads req and never writes to it or to res, and its last
\* statement is next()
securityMonitorValue(req) == Served("securityMonitor", req, 0, NoJson, 1)

\* securityMonitor(req, res, next); the two logSecurity calls write to the
\* log only, which is not part of the state
\* if (isSuspicious) metrics.security.suspiciousRequests++, applied to heap h
FlagRequest(h, m, req) ==
    IF IsSuspicious(req)
    THEN [h EXCEPT ![m["security"]].suspiciousRequests = @ + 1]
    ELSE h

securityMonitor(req) ==
    /\ served' = securityMonitorValue(req)
    /\ heap' = FlagRequest(heap, metrics, req)
    /\ UNCHANGED <<metrics, inflight, now, snapshot, health, recorded, gateVars, dbVars,
                   globalHits, proc>>

-----------------------------------------------------------------------------
(* The monitoring module on its own: no router and no controller loaded.   *)

NoUser == [role |-> "none"]
NoReply == [status |-> 0, by |-> "none", user |-> NoUser, checked |-> FALSE]

GateOff == adminHits = << >> /\ loginHits = << >> /\ reply = NoReply /\ router = "none"

DbOff == backend = "none" /\ pratos = {} /\ seq = 0 /\ reqs = << >>

\* the process after app.listen: the entry file it runs, its NODE_ENV, the
\* shutdown events it has received, the database disconnects it has started
\* and those that have settled, and the requests it is serving
Listening ==
    [state |-> "running", exitCode |-> -1, entry |-> "index.js", env |-> "production",
     events |-> << >>, disconnecting |-> 0, disconnected |-> 0, open |-> 0]

AppOff == globalHits = << >> /\ served = NoServed /\ proc = Listening

MonOnly == MonInit /\ GateOff /\ DbOff /\ AppOff

-----------------------------------------------------------------------------
(* The aggregator under requests, errors, readers and resets.              *)

HalfDayMs == 12 * 60 * 60 * 1000

MonRequests == { [method |-> "GET", path |-> "/api/cardapio", route |-> NoRoute] }

MonErrors == { [name |-> "TypeError", message |-> "x is not a function"] }

MonReadings == { [heapUsed |-> 50, heapTotal |-> 100] }

ScannedRequests ==
    { [url |-> <<"/", "a", "p", "i", "/", "c", "a", "r", "d", "a", "p", "i", "o">>, body |-> NoBody,
       userAgent |-> <<"M", "o", "z", "i", "l", "l", "a">>],
      [url |-> <<"/", "a", "p", "i", "?", "q", "=", "S", "E", "L", "E", "C", "T">>, body |-> NoBody,
       userAgent |-> <<"c", "u", "r", "l">>] }

\* the bounds of a run, as guards
Ticks(d) == now \div d
Started == M("requests").total
Pending == BagCardinality(inflight)
Failed == M("errors").total
Queried == M("database").queries
Flagged == M("security").suspiciousRequests

\* the recordings the current metrics object has counted
Recordings == Started + Failed + Queried + Flagged

\* one request pending at a time and one error, one database operation and
\* one flagged request per metrics object are enough to make each of its
\* groups differ from a fresh one
Recording ==
    \/ \E req \in MonRequests :
          Recordings < MaxEach /\ Pending = 0 /\ metricsCollector(req)
    \/ \E r \in BagToSet(inflight) : onFinish(r, 200)
    \/ \E error \in MonErrors, req \in MonRequests :
          Recordings < MaxEach /\ Failed = 0 /\ errorMetrics(error, req, "10.0.0.1")
    \/ Recordings < MaxEach /\ Queried = 0 /\ recordDatabaseOperation("findMany", 900)
    \/ \E req \in ScannedRequests :
          /\ Recordings < MaxEach /\ Flagged = 0
          /\ IsSuspicious(req)
          /\ securityMonitor(req)

ResetNext ==
    \/ Recording
    \/ getMetrics
    \/ CurrentGen < MaxResets /\ resetMetrics
    \/ \E mem \in MonReadings : getHealthStatus(mem)

SpecReset == MonOnly /\ [][ResetNext]_vars

ErrNext ==
    \/ Ticks(HalfDayMs) < MaxTicks /\ Tick(HalfDayMs)
    \/ \E error \in Errors, req \in MonRequests :
          Failed < MaxErrors /\ errorMetrics(error, req, "10.0.0.1")
    \/ getMetrics
    \/ CurrentGen < MaxResets /\ resetMetrics

SpecErr == MonOnly /\ [][ErrNext]_vars

AvgNext ==
    \/ Ticks(TickMs) < MaxTicks /\ Tick(TickMs)
    \/ \E req \in Requests :
          Started < MaxReq /\ Pending < MaxInflight /\ metricsCollector(req)
    \/ \E r \in BagToSet(inflight), sc \in StatusCodes : onFinish(r, sc)

SpecAvg == MonOnly /\ [][AvgNext]_vars

-----------------------------------------------------------------------------
(* The holder of a getMetrics() result writes through it.                  *)

Tamperings == {"requests.total", "errors.last24h", "security.blockedIPs"}

\* snapshot.requests.total = 999, snapshot.errors.last24h.length = 0,
\* snapshot.security.blockedIPs.add('10.0.0.9')
callerMutates(field) ==
    /\ snapshot.taken
    /\ heap' =
          CASE field = "requests.total" ->
                  [heap EXCEPT ![snapshot["requests"]].total = 999]
            [] field = "errors.last24h" ->
                  [heap EXCEPT ![snapshot["errors"]].last24h = << >>]
            [] field = "security.blockedIPs" ->
                  [heap EXCEPT ![snapshot["security"]].blockedIPs = @ \cup {"10.0.0.9"}]
    /\ UNCHANGED <<metrics, inflight, now, snapshot, health, recorded, gateVars, dbVars, appVars>>

SnapNext ==
    \/ ResetNext
    \/ \E field \in Tamperings : callerMutates(field)

SpecSnap == MonOnly /\ [][SnapNext]_vars

-----------------------------------------------------------------------------
(* getHealthStatus over the metrics the aggregator can hold: n requests    *)
(* answered one after the other in d ms each, and e errors recorded; and   *)
(* a response that finished after a reset had zeroed requests.total.       *)

HealthCounts == {0, 1, 20, 21}
HealthDurations == {0, 2000, 2001, 3000}
HealthErrors == {0, 1, 2}

Repeat(x, n) == [i \in 1..n |-> x]

Answered(n, d, e, t) ==
    [requests |->
        [total |-> n,
         byMethod |-> IF n = 0 THEN EmptyMap ELSE ("GET" :> n),
         byStatus |-> IF n = 0 THEN EmptyMap ELSE (200 :> n),
         byEndpoint |-> IF n = 0 THEN EmptyMap ELSE ("/api/cardapio" :> n)],
     performance |->
        [averageResponseTime |-> IF n = 0 THEN Zero ELSE Num(d, 1),
         slowRequests |-> IF IsSlow(d) THEN n ELSE 0,
         fastRequests |-> IF IsSlow(d) THEN 0 ELSE n],
     errors |->
        [total |-> e,
         byType |-> IF e = 0 THEN EmptyMap ELSE ("TypeError" :> e),
         last24h |-> Repeat([timestamp |-> t, type |-> "TypeError",
                             message |-> "x is not a function",
                             url |-> "/api/cardapio", method |-> "GET",
                             ip |-> "10.0.0.1"], e)],
     database |-> FreshGroup("database"),
     security |-> FreshGroup("security")]

\* a response of d ms recorded while requests.total was 0
FinishedAfterReset(d, e, t) ==
    [Answered(0, 0, e, t) EXCEPT
        !.requests.byStatus = (200 :> 1),
        !.performance = [averageResponseTime |-> RunningAverage(Zero, 0, d),
                         slowRequests |-> IF IsSlow(d) THEN 1 ELSE 0,
                         fastRequests |-> IF IsSlow(d) THEN 0 ELSE 1]]

HealthStates ==
    {Answered(n, d, e, n * d) :
        n \in HealthCounts, d \in HealthDurations, e \in HealthErrors}
    \cup {FinishedAfterReset(d, e, d) : d \in HealthDurations, e \in HealthErrors}

HealthInit ==
    /\ metrics = [g \in Groups |-> Ref(0, g)]
    /\ \E st \in HealthStates :
          /\ heap = [r \in {Ref(0, g) : g \in Groups} |-> st[r[2]]]
          /\ now = IF st.errors.total > 0 THEN st.errors.last24h[1].timestamp ELSE 0
    /\ inflight = EmptyBag
    /\ snapshot = NoSnapshot
    /\ health = NoHealth
    /\ recorded = [n |-> 0, sum |-> 0, queries |-> << >>]
    /\ GateOff
    /\ DbOff
    /\ AppOff

HealthNext == \E mem \in MemoryReadings : getHealthStatus(mem)

SpecHealth == HealthInit /\ [][HealthNext]_vars

-----------------------------------------------------------------------------
(* Properties of the metrics aggregator.                                   *)

AverageOf(v) == v["performance"].averageResponseTime

\* C1: with no reset, whenever N responses have finished, in whatever order
\* starts and finishes interleave, averageResponseTime is the arithmetic mean
\* of the N recorded response times.
C1_AverageIsMean ==
    recorded.n > 0 => AverageOf(MetricsView) = Num(recorded.sum, recorded.n)

\* C2: the value returned by getMetrics() shares no mutable structure with
\* the aggregator: a write through the snapshot leaves the aggregator's
\* metrics as they were, and later recording leaves the snapshot as it was.
C2_SnapshotIsolated ==
    [][ /\ (\E field \in Tamperings : callerMutates(field))
            => [g \in Groups |-> heap'[metrics'[g]]] = MetricsView
        /\ (snapshot.taken /\ Recording)
            => View(heap', snapshot') = SnapshotView ]_vars

IsAllZero(v) ==
    /\ v["requests"].total = 0
    /\ DOMAIN v["requests"].byMethod = {}
    /\ DOMAIN v["requests"].byStatus = {}
    /\ DOMAIN v["requests"].byEndpoint = {}
    /\ v["performance"].averageResponseTime = Zero
    /\ v["performance"].slowRequests = 0
    /\ v["performance"].fastRequests = 0
    /\ v["errors"].total = 0
    /\ DOMAIN v["errors"].byType = {}
    /\ v["errors"].last24h = << >>
    /\ v["database"].queries = 0
    /\ v["database"].averageQueryTime = Zero
    /\ v["database"].slowQueries = 0
    /\ v["security"].blockedIPs = {}
    /\ v["security"].suspiciousRequests = 0
    /\ v["security"].rateLimitHits = 0

\* C3: getMetrics() called immediately after resetMetrics() returns every
\* counter and average as 0 and every collection empty.
C3_ResetThenSnapshotIsZero ==
    [][resetMetrics => IsAllZero(View(heap', getMetricsValue(metrics', now')))]_vars

\* a snapshot of the metrics as a reset left them, taken after responses and
\* errors had been recorded
C3_Witness ==
    /\ snapshot.taken
    /\ GenOf(snapshot["requests"]) >= 1
    /\ IsAllZero(SnapshotView)
    /\ recorded.n > 0

SameGeneration(refs) ==
    \A g1 \in Groups, g2 \in Groups : GenOf(refs[g1]) = GenOf(refs[g2])

\* C4: resetMetrics() is atomic for its readers: at every point where
\* getMetrics() or getHealthStatus() can run, the five metric groups are all
\* from before a reset or all from after it, and so are the five groups of
\* every snapshot that was returned.
C4_ResetIsAtomic ==
    /\ SameGeneration(metrics)
    /\ snapshot.taken => SameGeneration(snapshot)

\* both readers have run after a reset that discarded recorded requests
C4_Witness ==
    /\ CurrentGen >= 1
    /\ snapshot.taken
    /\ GenOf(snapshot["errors"]) = CurrentGen
    /\ health.status = "OK"
    /\ recorded.n > 0
    /\ M("requests").total = 0

\* C5 as written: in a snapshot taken after errorMetrics inserted a record,
\* errors.last24h holds no record that is more than 24 hours older than the
\* snapshot.
C5_NoRecordOlderThan24hAtSnapshot ==
    snapshot.taken =>
        \A i \in 1..Len(SnapshotView["errors"].last24h) :
            snapshot.timestamp - SnapshotView["errors"].last24h[i].timestamp <= DayMs

PrunedAtInsertion(list) ==
    \A i \in 1..Len(list) : list[i].timestamp > list[Len(list)].timestamp - DayMs

\* C5 as amended: errors.last24h, in the aggregator and in every snapshot,
\* holds only records less than 24 hours older than the record inserted
\* last; the list is pruned when a record is inserted and not as time passes.
C5_PrunedWhenInserted ==
    /\ PrunedAtInsertion(M("errors").last24h)
    /\ snapshot.taken => PrunedAtInsertion(SnapshotView["errors"].last24h)

\* a snapshot showing the list after an insertion dropped an older record
C5_Witness ==
    /\ snapshot.taken
    /\ snapshot["errors"] = metrics["errors"]
    /\ Len(M("errors").last24h) >= 1
    /\ M("errors").total > Len(M("errors").last24h)
    /\ snapshot.timestamp > M("errors").last24h[Len(M("errors").last24h)].timestamp

ExpectedIssues(v, mem) ==
    (IF Gt(AverageOf(v), 2000) THEN <<"High average response time">> ELSE << >>) \o
    (IF (IF v["requests"].total > 1
            THEN v["errors"].total * 100 > 5 * v["requests"].total
            ELSE v["errors"].total * 100 > 5)
        THEN <<"High error rate">> ELSE << >>) \o
    (IF mem.heapUsed * 10 > 9 * mem.heapTotal
        THEN <<"High memory usage">> ELSE << >>)

\* C6: getHealthStatus() reports WARNING exactly when the average response
\* time exceeds 2000 ms, or errors / max(requests, 1) exceeds 0.05, or
\* heapUsed / heapTotal exceeds 0.9, and OK otherwise; the issues list is
\* present exactly when the status is WARNING and names exactly the
\* conditions that hold.
C6_HealthStatus ==
    health.status # "none" =>
        LET expected == ExpectedIssues(MetricsView, health.memory)
        IN  /\ health.status = (IF expected # << >> THEN "WARNING" ELSE "OK")
            /\ health.hasIssues = (health.status = "WARNING")
            /\ health.hasIssues => health.issues = expected

\* a WARNING raised by the error rate alone, and at the 0.05 boundary an OK
C6_Witness ==
    /\ health.status = "WARNING"
    /\ health.issues = <<"High error rate">>
    /\ M("requests").total = 21
    /\ M("errors").total = 2

-----------------------------------------------------------------------------
(* Values of a JSON request body, and the conversions the controllers      *)
(* apply to them.  A string is a sequence of characters.                   *)

Undefined == [t |-> "undefined"]
Str(chars) == [t |-> "string", v |-> chars]
Number(num) == [t |-> "number", v |-> num]
Bool(b) == [t |-> "boolean", v |-> b]

\* !x
Falsy(x) ==
    CASE x.t = "undefined" -> TRUE
      [] x.t = "string" -> Len(x.v) = 0
      [] x.t = "number" -> x.v = NaN \/ x.v = Zero
      [] x.t = "boolean" -> ~x.v

DigitOf ==
    ("0" :> 0) @@ ("1" :> 1) @@ ("2" :> 2) @@ ("3" :> 3) @@ ("4" :> 4) @@
    ("5" :> 5) @@ ("6" :> 6) @@ ("7" :> 7) @@ ("8" :> 8) @@ ("9" :> 9)

IsDigit(c) == c \in DOMAIN DigitOf

DigitChar(n) == CHOOSE c \in DOMAIN DigitOf : DigitOf[c] = n

RECURSIVE SkipSpaces(_, _)
\* the first position at or after i that holds no space
SkipSpaces(str, i) ==
    IF i <= Len(str) /\ str[i] = " " THEN SkipSpaces(str, i + 1) ELSE i

RECURSIVE DigitsEnd(_, _)
\* the first position at or after i that holds no digit
DigitsEnd(str, i) ==
    IF i <= Len(str) /\ IsDigit(str[i]) THEN DigitsEnd(str, i + 1) ELSE i

RECURSIVE ValueOf(_, _, _)
\* the number written by the digits str[i..j-1]
ValueOf(str, i, j) ==
    IF j <= i THEN 0 ELSE ValueOf(str, i, j - 1) * 10 + DigitOf[str[j - 1]]

RECURSIVE Pow10(_)
Pow10(k) == IF k = 0 THEN 1 ELSE 10 * Pow10(k - 1)

\* parseFloat of a string: the longest decimal literal it starts with
ParseFloatStr(str) ==
    LET a == SkipSpaces(str, 1)
        signed == a <= Len(str) /\ str[a] \in {"+", "-"}
        b == IF signed THEN a + 1 ELSE a
        c == DigitsEnd(str, b)
        dot == c <= Len(str) /\ str[c] = "."
        d == IF dot THEN DigitsEnd(str, c + 1) ELSE c
        fraction == IF dot THEN d - (c + 1) ELSE 0
        magnitude == ValueOf(str, b, c) * Pow10(fraction) + ValueOf(str, c + 1, d)
    IN  IF (c - b) + fraction = 0 THEN NaN
        ELSE Num((IF signed /\ str[a] = "-" THEN 0 - magnitude ELSE magnitude),
                 Pow10(fraction))

\* parseFloat(x)
parseFloat(x) ==
    CASE x.t = "string" -> ParseFloatStr(x.v)
      [] x.t = "number" -> x.v
      [] OTHER -> NaN

\* parseInt of a string: the longest integer literal it starts with
ParseIntStr(str) ==
    LET a == SkipSpaces(str, 1)
        signed == a <= Len(str) /\ str[a] \in {"+", "-"}
        b == IF signed THEN a + 1 ELSE a
        c == DigitsEnd(str, b)
    IN  IF c = b THEN NaN
        ELSE Num((IF signed /\ str[a] = "-"
                    THEN 0 - ValueOf(str, b, c) ELSE ValueOf(str, b, c)), 1)

\* the integer part of a number, towards zero
Trunc(num) ==
    IF ~IsFinite(num) THEN NaN
    ELSE IF num.n >= 0 THEN Num(num.n \div num.d, 1)
    ELSE Num(0 - ((0 - num.n) \div num.d), 1)

\* parseInt(x)
parseInt(x) ==
    CASE x.t = "string" -> ParseIntStr(x.v)
      [] x.t = "number" -> Trunc(x.v)
      [] OTHER -> NaN

\* isNaN(num) || num < 0
InvalidPrice(num) == num = NaN \/ (IsFinite(num) /\ num.n < 0) \/ num = NegInf

RECURSIVE TrimStart(_)
TrimStart(str) ==
    IF Len(str) > 0 /\ Head(str) = " " THEN TrimStart(Tail(str)) ELSE str

RECURSIVE TrimEnd(_)
TrimEnd(str) ==
    IF Len(str) > 0 /\ str[Len(str)] = " "
    THEN TrimEnd(SubSeq(str, 1, Len(str) - 1)) ELSE str

\* str.trim()
Trim(str) == TrimEnd(TrimStart(str))

RECURSIVE Digits(_)
\* n.toString(), for n >= 0
Digits(n) ==
    IF n < 10 THEN <<DigitChar(n)>> ELSE Digits(n \div 10) \o <<DigitChar(n % 10)>>

RECURSIVE PadStart(_, _, _)
\* str.padStart(len, ch)
PadStart(str, len, ch) ==
    IF Len(str) >= len THEN str ELSE PadStart(<<ch>> \o str, len, ch)

\* `PRATO${n.toString().padStart(3, '0')}`
CodigoPrato(n) == <<"P", "R", "A", "T", "O">> \o PadStart(Digits(n), 3, "0")

-----------------------------------------------------------------------------
(* The stored dishes and POST /api/admin/pratos.  Each `await` of the      *)
(* handler is a step of its own: the database executes the awaited         *)
(* operation and the handler runs on to its next await or to its response. *)

\* the categories both seeds insert
Categorias == 1..4

\* per seeded dish: id_categoria, disponivel, preco (in centavos)
SeedCategoria == <<1, 2, 3, 2, 1, 2, 3, 4, 4, 4>>
SeedDisponivel == <<TRUE, TRUE, FALSE, FALSE, TRUE, TRUE, TRUE, TRUE, TRUE, TRUE>>
SeedPreco == <<1890, 4590, 1690, 4290, 2490, 3290, 1490, 450, 890, 1800>>

\* the seeded names, each cut to its first two letters
SeedNome ==
    << <<"B", "r">>, <<"S", "a">>, <<"T", "i">>, <<"R", "i">>, <<"C", "a">>,
       <<"F", "r">>, <<"C", "h">>, <<"A", "g">>, <<"S", "u">>, <<"V", "i">> >>

\* a seeded dish; names are abbreviated and descriptions left out
SeedPrato(i) ==
    [id_prato |-> i, codigo_prato |-> CodigoPrato(i),
     nome_prato |-> SeedNome[i], descricao |-> <<"d">>,
     preco |-> Num(SeedPreco[i], 100), disponivel |-> SeedDisponivel[i],
     id_categoria |-> SeedCategoria[i], tipo_item |-> "Cardapio"]

\* prisma/seed.js and prisma/seed.sql insert ten dishes, models/database.js three
SeedCount(b) == IF b = "json" THEN 3 ELSE Len(SeedCategoria)

\* seed.sql sets the sequence to MAX(id_prato); seed.js, inserting explicit
\* ids, leaves it where it was
SeedSequences(b) == IF b = "prisma" THEN {0, SeedCount(b)} ELSE {0}

DbInit(b) ==
    /\ backend = b
    /\ pratos = {SeedPrato(i) : i \in 1..SeedCount(b)}
    /\ seq \in SeedSequences(b)
    /\ reqs = << >>

NoPrato == [id_prato |-> 0]
NoLocal == [codigo |-> << >>, lido |-> {}, novoPrato |-> NoPrato]
NoDados == [nome_prato |-> << >>]

\* a request of a controller: the handler `op` it runs, req.params.id and
\* req.body, where the handler is suspended, the handler's locals, and its
\* response once sent (status 0: none yet)
Request(op, id, body, pc) ==
    [op |-> op, id |-> id, body |-> body, pc |-> pc, dados |-> NoDados,
     local |-> NoLocal, status |-> 0, error |-> "", prato |-> NoPrato,
     cardapio |-> << >>]

\* a request of criarPrato, which has no route parameter
Handler(body, pc) == Request("criarPrato", << >>, body, pc)

Respond(h, status, error) == [h EXCEPT !.pc = "done", !.status = status, !.error = error]

Created(h, prato) == [h EXCEPT !.pc = "done", !.status = 201, !.prato = prato]

\* !nome_prato || !descricao || !preco || !id_categoria
MissingField(body) ==
    Falsy(body.nome_prato) \/ Falsy(body.descricao) \/ Falsy(body.preco)
        \/ Falsy(body.id_categoria)

\* criarPrato up to its first await
criarPratoValue(body) ==
    IF MissingField(body)
    THEN Respond(Handler(body, "start"), 400, "Dados invalidos")
    ELSE Handler(body, "getCategoriaById")

criarPrato(body) ==
    /\ reqs' = Append(reqs, criarPratoValue(body))
    /\ UNCHANGED <<backend, pratos, seq, monVars, gateVars, appVars>>

\* disponivel !== undefined ? Boolean(disponivel) : true
Disponivel(body) == IF body.disponivel # Undefined THEN ~Falsy(body.disponivel) ELSE TRUE

\* the controller's dadosPrato; adminControllerPrisma trims the two texts
DadosPrato(b, body) ==
    [nome_prato |-> IF b = "prisma" THEN Trim(body.nome_prato.v) ELSE body.nome_prato.v,
     descricao |-> IF b = "prisma" THEN Trim(body.descricao.v) ELSE body.descricao.v,
     preco |-> parseFloat(body.preco),
     id_categoria |-> parseInt(body.id_categoria).n,
     disponivel |-> Disponivel(body),
     tipo_item |-> "Cardapio"]

\* getCategoriaById resolves and criarPrato runs on to database.createPrato,
\* which suspends at its first await
afterGetCategoriaById(b, h) ==
    LET id == parseInt(h.body.id_categoria)
    IN  IF id = NaN /\ b = "prisma"
        THEN Respond(h, 500, "Erro interno do servidor")
        ELSE IF ~(IsFinite(id) /\ id.n \in Categorias)
        THEN Respond(h, 400, "Categoria invalida")
        ELSE IF InvalidPrice(parseFloat(h.body.preco))
        THEN Respond(h, 400, "Preco invalido")
        ELSE IF b = "prisma" /\ (h.body.nome_prato.t # "string"
                                    \/ h.body.descricao.t # "string")
        THEN Respond(h, 500, "Erro interno do servidor")
        ELSE [h EXCEPT !.pc = IF b = "prisma" THEN "findFirst" ELSE "readJson",
                       !.dados = DadosPrato(b, h.body)]

getCategoriaById(i) ==
    /\ reqs[i].pc = "getCategoriaById"
    /\ reqs' = [reqs EXCEPT ![i] = afterGetCategoriaById(backend, reqs[i])]
    /\ UNCHANGED <<backend, pratos, seq, monVars, gateVars, appVars>>

MaxId(ps) == IF ps = {} THEN 0 ELSE Max({p.id_prato : p \in ps})

NovoPrato(id, codigo, dados) ==
    [id_prato |-> id, codigo_prato |-> codigo,
     nome_prato |-> dados.nome_prato, descricao |-> dados.descricao,
     preco |-> dados.preco, disponivel |-> dados.disponivel,
     id_categoria |-> dados.id_categoria, tipo_item |-> dados.tipo_item]

\* PrismaDatabase.createPrato: prisma.prato.findFirst resolves; the handler
\* derives the code from the highest id and suspends at prisma.prato.create
findFirst(i) ==
    /\ reqs[i].pc = "findFirst"
    /\ LET proximoId == MaxId(pratos) + 1
       IN  reqs' = [reqs EXCEPT ![i].pc = "create",
                                ![i].local.codigo = CodigoPrato(proximoId)]
    /\ UNCHANGED <<backend, pratos, seq, monVars, gateVars, appVars>>

\* the unique constraints an INSERT of (id, codigo) violates
Violated(ps, id, codigo) ==
    {t \in {"id_prato", "codigo_prato"} : \E p \in ps : p[t] = (IF t = "id_prato" THEN id ELSE codigo)}

\* criarPrato's catch: P2002 on codigo_prato is answered 400, the rest 500
Caught(h, target) ==
    IF target = "codigo_prato"
    THEN Respond(h, 400, "Codigo duplicado")
    ELSE Respond(h, 500, "Erro interno do servidor")

\* prisma.prato.create resolves or rejects: the INSERT takes the next value
\* of the sequence, which stays taken when the INSERT fails, and reports one
\* of the unique constraints it violates
create(i) ==
    /\ reqs[i].pc = "create"
    /\ seq' = seq + 1
    /\ LET h == reqs[i]
           novoPrato == NovoPrato(seq', h.local.codigo, h.dados)
           violated == Violated(pratos, seq', h.local.codigo)
       IN  IF violated = {}
           THEN /\ pratos' = pratos \cup {novoPrato}
                /\ reqs' = [reqs EXCEPT ![i] = Created(h, novoPrato)]
           ELSE /\ pratos' = pratos
                /\ \E target \in violated : reqs' = [reqs EXCEPT ![i] = Caught(h, target)]
    /\ UNCHANGED <<backend, monVars, gateVars, appVars>>

\* Database.createPrato: fs.readJson resolves; the handler builds the new
\* dish from the array it read and suspends at fs.writeJson
readJson(i) ==
    /\ reqs[i].pc = "readJson"
    /\ LET novoId == IF pratos # {} THEN MaxId(pratos) + 1 ELSE 1
       IN  reqs' = [reqs EXCEPT
                      ![i].pc = "writeJson",
                      ![i].local.lido = pratos,
                      ![i].local.novoPrato =
                          NovoPrato(novoId, CodigoPrato(novoId), reqs[i].dados)]
    /\ UNCHANGED <<backend, pratos, seq, monVars, gateVars, appVars>>

\* fs.writeJson resolves: the file now holds the array the handler read with
\* its new dish pushed; the write is taken as one step of the file system
writeJson(i) ==
    /\ reqs[i].pc = "writeJson"
    /\ pratos' = reqs[i].local.lido \cup {reqs[i].local.novoPrato}
    /\ reqs' = [reqs EXCEPT ![i] = Created(reqs[i], reqs[i].local.novoPrato)]
    /\ UNCHANGED <<backend, seq, monVars, gateVars, appVars>>

-----------------------------------------------------------------------------
(* The other handlers of the Prisma controllers: PATCH                     *)
(* /api/admin/pratos/:id/disponibilidade, PUT /api/admin/pratos/:id and    *)
(* GET /api/cardapio/prato/:id, which all begin with                       *)
(* database.getPratoById, and GET /api/cardapio.                           *)

\* a body without any of the five fields, as body-parser leaves it for a
\* request that has none
EmptyBody ==
    [nome_prato |-> Undefined, descricao |-> Undefined, preco |-> Undefined,
     id_categoria |-> Undefined, disponivel |-> Undefined]

\* prisma.prato.findUnique({ where: { id_prato } }): the row, or null
findUnique(ps, id) ==
    IF \E p \in ps : p.id_prato = id THEN CHOOSE p \in ps : p.id_prato = id
    ELSE NoPrato

Found(h, prato) == [h EXCEPT !.pc = "done", !.status = 200, !.prato = prato]

InternalError(h) == Respond(h, 500, "Erro interno do servidor")

NotBooleanLax(disponivel) == disponivel = Undefined

\* disponivel === undefined || typeof disponivel !== 'boolean'
NotBoolean(disponivel) == disponivel = Undefined \/ disponivel.t # "boolean"

\* alterarDisponibilidade up to its first await
alterarDisponibilidadeValue(id, body) ==
    IF NotBoolean(body.disponivel)
    THEN Respond(Request("alterarDisponibilidade", id, body, "start"), 400,
                 "Parametro invalido")
    ELSE Request("alterarDisponibilidade", id, body, "getPratoById")

alterarDisponibilidade(id, body) ==
    /\ reqs' = Append(reqs, alterarDisponibilidadeValue(id, body))
    /\ UNCHANGED <<backend, pratos, seq, monVars, gateVars, appVars>>

\* atualizarPrato and getPratoPublico await getPratoById at once
atualizarPrato(id, body) ==
    /\ reqs' = Append(reqs, Request("atualizarPrato", id, body, "getPratoById"))
    /\ UNCHANGED <<backend, pratos, seq, monVars, gateVars, appVars>>

getPratoPublico(id) ==
    /\ reqs' = Append(reqs, Request("getPratoPublico", id, EmptyBody, "getPratoById"))
    /\ UNCHANGED <<backend, pratos, seq, monVars, gateVars, appVars>>

\* GET /api/admin/pratos/:id
getPratoPorId(id) ==
    /\ reqs' = Append(reqs, Request("getPratoPorId", id, EmptyBody, "getPratoById"))
    /\ UNCHANGED <<backend, pratos, seq, monVars, gateVars, appVars>>

Given(x, value) == IF x # Undefined THEN value ELSE Undefined

\* the controller's dadosAtualizacao: a field is set when the body has it
DadosAtualizacao(body) ==
    [nome_prato |-> Given(body.nome_prato, Str(Trim(body.nome_prato.v))),
     descricao |-> Given(body.descricao, Str(Trim(body.descricao.v))),
     preco |-> Given(body.preco, Number(parseFloat(body.preco))),
     id_categoria |-> Given(body.id_categoria, Number(parseInt(body.id_categoria))),
     disponivel |-> Given(body.disponivel, Bool(~Falsy(body.disponivel)))]

\* atualizarPrato from the destructuring of req.body to its next await;
\* calling trim on a value that is not a string throws into the catch
atualizarPratoValue(h) ==
    LET body == h.body
    IN  IF body.nome_prato # Undefined /\ body.nome_prato.t # "string"
        THEN InternalError(h)
        ELSE IF body.nome_prato # Undefined /\ Trim(body.nome_prato.v) = << >>
        THEN Respond(h, 400, "Nome invalido")
        ELSE IF body.descricao # Undefined /\ body.descricao.t # "string"
        THEN InternalError(h)
        ELSE IF body.preco # Undefined /\ InvalidPrice(parseFloat(body.preco))
        THEN Respond(h, 400, "Preco invalido")
        ELSE IF body.id_categoria # Undefined
        THEN [h EXCEPT !.pc = "atualizarPrato:getCategoriaById"]
        ELSE [h EXCEPT !.pc = "updatePrato", !.dados = DadosAtualizacao(body)]

\* PrismaDatabase.getPratoById resolves or rejects (parseInt(id) is NaN, which
\* Prisma refuses as an Int) and the handler runs on
afterGetPratoById(h, ps) ==
    LET id == parseInt(Str(h.id))
        prato == findUnique(ps, id.n)
    IN  IF id = NaN THEN InternalError(h)
        ELSE IF prato = NoPrato THEN Respond(h, 404, "Prato nao encontrado")
        ELSE IF h.op = "getPratoPublico"
        THEN IF ~prato.disponivel THEN Respond(h, 404, "Prato indisponivel")
             ELSE Found(h, prato)
        ELSE IF h.op = "getPratoPorId" THEN Found(h, prato)
        ELSE IF h.op = "alterarDisponibilidade"
        THEN [h EXCEPT !.pc = "updateDisponibilidadePrato"]
        ELSE atualizarPratoValue(h)

getPratoById(i) ==
    /\ reqs[i].pc = "getPratoById"
    /\ reqs' = [reqs EXCEPT ![i] = afterGetPratoById(reqs[i], pratos)]
    /\ UNCHANGED <<backend, pratos, seq, monVars, gateVars, appVars>>

\* PrismaDatabase.updatePrato's updateData
UpdateData(dados) ==
    [nome_prato |-> dados.nome_prato,
     descricao |-> dados.descricao,
     preco |-> Given(dados.preco, Number(parseFloat(dados.preco))),
     disponivel |-> dados.disponivel,
     id_categoria |-> Given(dados.id_categoria, Number(parseInt(dados.id_categoria)))]

UpdateEveryColumn(prato, data) ==
    [prato EXCEPT
        !.nome_prato = IF data.nome_prato # Undefined THEN data.nome_prato.v ELSE << >>,
        !.descricao = IF data.descricao # Undefined THEN data.descricao.v ELSE << >>,
        !.preco = IF data.preco # Undefined THEN data.preco.v ELSE Zero,
        !.disponivel = IF data.disponivel # Undefined THEN data.disponivel.v ELSE FALSE,
        !.id_categoria = IF data.id_categoria # Undefined THEN data.id_categoria.v.n ELSE @]

UpdateRenumbers(prato, data) ==
    [UpdateEveryColumn(prato, data) EXCEPT !.id_prato = @ + SeedCount("prisma")]

\* prisma.prato.update({ where, data }): the row with the columns named in
\* data set, and the others as they are
Update(prato, data) ==
    [prato EXCEPT
        !.nome_prato = IF data.nome_prato # Undefined THEN data.nome_prato.v ELSE @,
        !.descricao = IF data.descricao # Undefined THEN data.descricao.v ELSE @,
        !.preco = IF data.preco # Undefined THEN data.preco.v ELSE @,
        !.disponivel = IF data.disponivel # Undefined THEN data.disponivel.v ELSE @,
        !.id_categoria = IF data.id_categoria # Undefined THEN data.id_categoria.v.n ELSE @]

\* an update that takes the category as it is sent
UpdateTrustsCategory(h) ==
    IF parseInt(h.body.id_categoria) = NaN THEN InternalError(h)
    ELSE [h EXCEPT !.pc = "updatePrato", !.dados = DadosAtualizacao(h.body)]

\* atualizarPrato after database.getCategoriaById(id_categoria)
afterGetCategoriaByIdUpdate(h) ==
    LET id == parseInt(h.body.id_categoria)
    IN  IF id = NaN THEN InternalError(h)
        ELSE IF id.n \notin Categorias THEN Respond(h, 400, "Categoria invalida")
        ELSE [h EXCEPT !.pc = "updatePrato", !.dados = DadosAtualizacao(h.body)]

\* an update that writes the other fields before it looks up the category
getCategoriaByIdUpdateLate(i) ==
    /\ reqs[i].pc = "atualizarPrato:getCategoriaById"
    /\ reqs' = [reqs EXCEPT ![i] = afterGetCategoriaByIdUpdate(reqs[i])]
    /\ LET h == reqs[i]
           prato == findUnique(pratos, parseInt(Str(h.id)).n)
           others == [h.body EXCEPT !.id_categoria = Undefined]
       IN  IF reqs'[i].status = 400 /\ prato # NoPrato
           THEN pratos' = (pratos \ {prato})
                            \cup {Update(prato, UpdateData(DadosAtualizacao(others)))}
           ELSE pratos' = pratos
    /\ UNCHANGED <<backend, seq, monVars, gateVars, appVars>>

getCategoriaByIdUpdate(i) ==
    /\ reqs[i].pc = "atualizarPrato:getCategoriaById"
    /\ reqs' = [reqs EXCEPT ![i] = afterGetCategoriaByIdUpdate(reqs[i])]
    /\ UNCHANGED <<backend, pratos, seq, monVars, gateVars, appVars>>

\* prisma.prato.update resolves, or rejects when the row is not there
updatePrato(i) ==
    /\ reqs[i].pc = "updatePrato"
    /\ LET h == reqs[i]
           prato == findUnique(pratos, parseInt(Str(h.id)).n)
           pratoAtualizado == Update(prato, UpdateData(h.dados))
       IN  IF prato = NoPrato
           THEN pratos' = pratos /\ reqs' = [reqs EXCEPT ![i] = InternalError(h)]
           ELSE /\ pratos' = (pratos \ {prato}) \cup {pratoAtualizado}
                /\ reqs' = [reqs EXCEPT ![i] = Found(h, pratoAtualizado)]
    /\ UNCHANGED <<backend, seq, monVars, gateVars, appVars>>

\* PrismaDatabase.updateDisponibilidadePrato: prisma.prato.update with
\* data { disponivel }, which Prisma accepts only as a boolean
updateDisponibilidadePrato(i) ==
    /\ reqs[i].pc = "updateDisponibilidadePrato"
    /\ LET h == reqs[i]
           prato == findUnique(pratos, parseInt(Str(h.id)).n)
           pratoAtualizado == [prato EXCEPT !.disponivel = h.body.disponivel.v]
       IN  IF prato = NoPrato \/ h.body.disponivel.t # "boolean"
           THEN pratos' = pratos /\ reqs' = [reqs EXCEPT ![i] = InternalError(h)]
           ELSE /\ pratos' = (pratos \ {prato}) \cup {pratoAtualizado}
                /\ reqs' = [reqs EXCEPT ![i] = Found(h, pratoAtualizado)]
    /\ UNCHANGED <<backend, seq, monVars, gateVars, appVars>>

\* the characters of the names in use, in ascending code-unit order
CharOrder ==
    <<" ", "0", "1", "2", "3", "4", "5", "6", "7", "8", "9",
      "A", "B", "C", "D", "E", "F", "G", "H", "I", "J", "K", "L", "M",
      "N", "O", "P", "Q", "R", "S", "T", "U", "V", "W", "X", "Y", "Z",
      "a", "b", "c", "d", "e", "f", "g", "h", "i", "j", "k", "l", "m",
      "n", "o", "p", "q", "r", "s", "t", "u", "v", "w", "x", "y", "z">>

CharCode(c) == CHOOSE k \in DOMAIN CharOrder : CharOrder[k] = c

\* a sorts before b: at the first position where they differ a has the
\* lower character, or a ends there
NomeLess(a, b) ==
    \E k \in 1..Len(b) :
        /\ k <= Len(a) + 1
        /\ \A j \in 1..(k - 1) : a[j] = b[j]
        /\ k <= Len(a) => CharCode(a[k]) < CharCode(b[k])

NomeLeq(a, b) == a = b \/ NomeLess(a, b)

\* both seeds give category c the display order c
OrdemExibicao(c) == c

RECURSIVE OrderByOrdemExibicao(_)
\* orderBy: { ordem_exibicao: 'asc' }
OrderByOrdemExibicao(cs) ==
    IF cs = {} THEN << >>
    ELSE LET c == CHOOSE x \in cs : \A y \in cs : OrdemExibicao(x) <= OrdemExibicao(y)
         IN  <<c>> \o OrderByOrdemExibicao(cs \ {c})

RECURSIVE OrderByNome(_)
\* orderBy: { nome_prato: 'asc' }: every order the database may return, which
\* is free in the order of rows of the same name
OrderByNome(ps) ==
    IF ps = {} THEN {<< >>}
    ELSE UNION { {<<p>> \o rest : rest \in OrderByNome(ps \ {p})} :
                 p \in {x \in ps : \A y \in ps : NomeLeq(x.nome_prato, y.nome_prato)} }

RECURSIVE FileOrder(_)
\* pratos.json as an array: the seeded dishes in the order of their ids
\* and every created dish pushed at its end with the highest id
FileOrder(ps) ==
    IF ps = {} THEN << >>
    ELSE LET p == CHOOSE x \in ps : \A y \in ps : x.id_prato <= y.id_prato
         IN  <<p>> \o FileOrder(ps \ {p})

\* where: { disponivel: true }, within category c
Disponiveis(ps, c) == {p \in ps : p.disponivel /\ p.id_categoria = c}

\* the lists of dishes a query may return for each category
PratosDaCategoria(b, ps) ==
    [c \in Categorias |->
        IF b = "prisma" THEN OrderByNome(Disponiveis(ps, c))
        ELSE {FileOrder(Disponiveis(ps, c))}]

\* categorias.filter(categoria => categoria.pratos.length > 0).map(...)
Cardapio(porCategoria) ==
    LET categorias == OrderByOrdemExibicao(Categorias)
        item(k) == [categoria |-> categorias[k],
                    ordem_exibicao |-> OrdemExibicao(categorias[k]),
                    pratos |-> porCategoria[categorias[k]]]
        comPratos(categoria) == Len(categoria.pratos) > 0
    IN  SelectSeq([k \in 1..Len(categorias) |-> item(k)], comPratos)

\* getPratosDisponiveis of either database: the menus it may return
getPratosDisponiveisValue(b, ps) ==
    LET listas == PratosDaCategoria(b, ps)
    IN  { Cardapio(porCategoria) :
            porCategoria \in {f \in [Categorias -> UNION {listas[c] : c \in Categorias}] :
                                \A c \in Categorias : f[c] \in listas[c]} }

\* getCardapioPublico awaits database.getPratosDisponiveis at once
getCardapioPublico ==
    /\ reqs' = Append(reqs, Request("getCardapioPublico", << >>, EmptyBody,
                                    "getPratosDisponiveis"))
    /\ UNCHANGED <<backend, pratos, seq, monVars, gateVars, appVars>>

\* the query resolves and the controller answers with the menu
getPratosDisponiveis(i) ==
    /\ reqs[i].pc = "getPratosDisponiveis"
    /\ \E cardapio \in getPratosDisponiveisValue(backend, pratos) :
          reqs' = [reqs EXCEPT ![i].pc = "done", ![i].status = 200,
                               ![i].cardapio = cardapio]
    /\ UNCHANGED <<backend, pratos, seq, monVars, gateVars, appVars>>

-----------------------------------------------------------------------------
(* Create requests against each database.                                  *)

MaxCreates == 2

Bolo == Str(<<"B", "o", "l", "o">>)

\* { nome_prato: "Bolo", descricao: "x", preco: "10.00", id_categoria: 1 }
BoloBody ==
    [nome_prato |-> Bolo, descricao |-> Str(<<"x">>),
     preco |-> Str(<<"1", "0", ".", "0", "0">>), id_categoria |-> Number(Num(1, 1)),
     disponivel |-> Undefined]

Bodies ==
    { BoloBody,
      [BoloBody EXCEPT !.preco = Number(Zero)],
      [BoloBody EXCEPT !.nome_prato = Str(<<" ", "P", "a", "o", " ">>),
                       !.preco = Str(<<"0">>),
                       !.id_categoria = Str(<<"2">>),
                       !.disponivel = Bool(FALSE)],
      [BoloBody EXCEPT !.preco = Str(<<"-", "5">>)],
      [BoloBody EXCEPT !.preco = Str(<<"a", "b", "c">>)],
      [BoloBody EXCEPT !.id_categoria = Number(Num(99, 1))],
      [BoloBody EXCEPT !.descricao = Undefined] }

Arrived == Len(reqs)

PrismaNext ==
    \/ \E body \in Bodies : Arrived < MaxCreates /\ criarPrato(body)
    \/ \E i \in DOMAIN reqs : getCategoriaById(i)
    \/ \E i \in DOMAIN reqs : findFirst(i)
    \/ \E i \in DOMAIN reqs : create(i)

PrismaInit == MonInit /\ GateOff /\ DbInit("prisma") /\ AppOff

SpecPrisma == PrismaInit /\ [][PrismaNext]_vars

JsonNext ==
    \/ \E body \in Bodies : Arrived < MaxCreates /\ criarPrato(body)
    \/ \E i \in DOMAIN reqs : getCategoriaById(i)
    \/ \E i \in DOMAIN reqs : readJson(i)
    \/ \E i \in DOMAIN reqs : writeJson(i)
    \/ Arrived < MaxCreates /\ getCardapioPublico
    \/ \E i \in DOMAIN reqs : getPratosDisponiveis(i)

JsonInit == MonInit /\ GateOff /\ DbInit("json") /\ AppOff

SpecJson == JsonInit /\ [][JsonNext]_vars

-----------------------------------------------------------------------------
(* Readers of the menu next to creates, updates and availability changes,  *)
(* against the Prisma database.                                            *)

MaxOps == 2         \* requests per run of the menu and of the updates

\* dish 3 is seeded unavailable, dish 99 is not stored, abc is no number
Ids == { <<"3">>, <<"9", "9">>, <<"a", "b", "c">> }

Yes == Str(<<"y", "e", "s">>)

Disponibilidade(payload) == [EmptyBody EXCEPT !.disponivel = payload]

\* PATCH requests: every payload for the stored dish, and a wrong and a right
\* one for the two other ids
Alteracoes ==
    { [id |-> <<"3">>, body |-> Disponibilidade(payload)] :
        payload \in {Bool(TRUE), Bool(FALSE), Yes, Undefined} }
    \cup { [id |-> id, body |-> Disponibilidade(payload)] :
             id \in Ids \ {<<"3">>}, payload \in {Bool(TRUE), Yes} }

Pao == Str(<<" ", "P", "a", "o", " ">>)

\* { nome_prato: " Pao " } and { id_categoria: "1", disponivel: true }
MenuUpdates ==
    { [EmptyBody EXCEPT !.nome_prato = Pao],
      [EmptyBody EXCEPT !.id_categoria = Str(<<"1">>), !.disponivel = Bool(TRUE)] }

\* "Bolo" in category 1, available, and " Pao " in category 2, unavailable
MenuCreates ==
    { BoloBody,
      [BoloBody EXCEPT !.nome_prato = Pao, !.id_categoria = Str(<<"2">>),
                       !.disponivel = Bool(FALSE)] }

MenuNext ==
    \/ \E body \in MenuCreates : Arrived < MaxOps /\ criarPrato(body)
    \/ \E i \in DOMAIN reqs : getCategoriaById(i)
    \/ \E i \in DOMAIN reqs : findFirst(i)
    \/ \E i \in DOMAIN reqs : create(i)
    \/ \E a \in Alteracoes : Arrived < MaxOps /\ alterarDisponibilidade(a.id, a.body)
    \/ \E body \in MenuUpdates : Arrived < MaxOps /\ atualizarPrato(<<"3">>, body)
    \/ \E id \in Ids : Arrived < MaxOps /\ getPratoPublico(id)
    \/ Arrived < MaxOps /\ getCardapioPublico
    \/ \E i \in DOMAIN reqs : getPratoById(i)
    \/ \E i \in DOMAIN reqs : getCategoriaByIdUpdate(i)
    \/ \E i \in DOMAIN reqs : updatePrato(i)
    \/ \E i \in DOMAIN reqs : updateDisponibilidadePrato(i)
    \/ \E i \in DOMAIN reqs : getPratosDisponiveis(i)

MenuInit == MonInit /\ GateOff /\ DbInit("prisma") /\ AppOff

SpecMenu == MenuInit /\ [][MenuNext]_vars

-----------------------------------------------------------------------------
(* PUT /api/admin/pratos/:id next to other updates and availability        *)
(* changes of the same and of other dishes.                                *)

\* the bodies of PUT requests for dish 3: each field alone or with another,
\* none, all five, and bodies the controller refuses
Updates ==
    { [EmptyBody EXCEPT !.nome_prato = Pao],
      [EmptyBody EXCEPT !.descricao = Str(<<" ", "y">>),
                        !.preco = Str(<<"1", "2", ".", "5", "0">>)],
      [EmptyBody EXCEPT !.id_categoria = Str(<<"1">>), !.disponivel = Bool(TRUE)],
      [EmptyBody EXCEPT !.disponivel = Str(<<"n", "o">>)],
      EmptyBody,
      [nome_prato |-> Bolo, descricao |-> Str(<<"x">>), preco |-> Number(Num(9, 1)),
       id_categoria |-> Number(Num(4, 1)), disponivel |-> Bool(FALSE)],
      [EmptyBody EXCEPT !.nome_prato = Str(<<" ", " ">>)],
      [EmptyBody EXCEPT !.nome_prato = Number(Num(5, 1))],
      [EmptyBody EXCEPT !.preco = Str(<<"-", "5">>)],
      [EmptyBody EXCEPT !.id_categoria = Number(Num(99, 1))] }

\* PUT requests: every body for dish 3, and a name or a price for dish 1,
\* for the absent dish 99 and for the id abc
Atualizacoes ==
    { [id |-> <<"3">>, body |-> body] : body \in Updates }
    \cup { [id |-> id, body |-> body] :
             id \in {<<"1">>, <<"9", "9">>, <<"a", "b", "c">>},
             body \in { [EmptyBody EXCEPT !.nome_prato = Pao],
                        [EmptyBody EXCEPT !.preco = Number(Num(9, 1))] } }

UpdateNext ==
    \/ \E a \in Atualizacoes : Arrived < MaxOps /\ atualizarPrato(a.id, a.body)
    \/ \E payload \in {Bool(TRUE), Bool(FALSE)} :
          Arrived < MaxOps /\ alterarDisponibilidade(<<"3">>, Disponibilidade(payload))
    \/ \E i \in DOMAIN reqs : getPratoById(i)
    \/ \E i \in DOMAIN reqs : getCategoriaByIdUpdate(i)
    \/ \E i \in DOMAIN reqs : updatePrato(i)
    \/ \E i \in DOMAIN reqs : updateDisponibilidadePrato(i)

UpdateInit == MonInit /\ GateOff /\ DbInit("prisma") /\ AppOff

SpecUpdate == UpdateInit /\ [][UpdateNext]_vars

-----------------------------------------------------------------------------
(* Properties of dish creation.                                            *)

Present(x) == x # Undefined /\ (x.t = "string" => Len(x.v) > 0)

\* all required fields present, a price that parses to a non-negative
\* number, a category id that names an existing category
ValidBody(body) ==
    /\ Present(body.nome_prato) /\ Present(body.descricao)
    /\ Present(body.preco) /\ Present(body.id_categoria)
    /\ IsFinite(parseFloat(body.preco)) /\ parseFloat(body.preco).n >= 0
    /\ IsFinite(parseInt(body.id_categoria))
    /\ parseInt(body.id_categoria).n \in Categorias

\* PRATO followed by at least three digits
IsCodigo(codigo) ==
    /\ Len(codigo) >= 8
    /\ SubSeq(codigo, 1, 5) = <<"P", "R", "A", "T", "O">>
    /\ \A k \in 6..Len(codigo) : IsDigit(codigo[k])

Seeded == {SeedPrato(i) : i \in 1..SeedCount(backend)}

\* C9: a create request with every required field present, a price that
\* parses to a non-negative number and an existing category, handled on its
\* own against a database whose id sequence matches its seeded rows, is
\* answered 201 and stores exactly one new dish, whose code is PRATO followed
\* by a zero-padded number and whose disponivel is true when the flag was
\* omitted.
C9_ValidCreateIsStored ==
    (/\ Len(reqs) = 1
     /\ reqs[1].pc = "done"
     /\ ValidBody(reqs[1].body)
     /\ seq >= SeedCount(backend))
    => /\ reqs[1].status = 201
       /\ pratos = Seeded \cup {reqs[1].prato}
       /\ reqs[1].prato \notin Seeded
       /\ IsCodigo(reqs[1].prato.codigo_prato)
       /\ reqs[1].body.disponivel = Undefined => reqs[1].prato.disponivel

\* C10: in every interleaving of create requests no two stored dishes share
\* an id or a code, no two requests answered 201 were given the same id or
\* code, and the dish of every request answered 201 is stored.
C10_ConcurrentCreates ==
    /\ \A p \in pratos, q \in pratos :
          p # q => p.id_prato # q.id_prato /\ p.codigo_prato # q.codigo_prato
    /\ \A i \in DOMAIN reqs, j \in DOMAIN reqs :
          (i # j /\ reqs[i].status = 201 /\ reqs[j].status = 201)
              => /\ reqs[i].prato.id_prato # reqs[j].prato.id_prato
                 /\ reqs[i].prato.codigo_prato # reqs[j].prato.codigo_prato
    /\ \A i \in DOMAIN reqs : reqs[i].status = 201 => reqs[i].prato \in pratos

-----------------------------------------------------------------------------
(* Properties of the availability change, the public reads and the menu.   *)

LiteralBoolean(x) == x \in {Bool(TRUE), Bool(FALSE)}

\* C11: a PATCH availability request whose disponivel is missing or is not
\* a literal boolean is answered 400, whatever its dish id, and no step of
\* that request changes a stored dish.
C11_InvalidToggleIs400 ==
    [][\A i \in DOMAIN reqs' :
          LET h == reqs'[i]
          IN  (h.op = "alterarDisponibilidade" /\ ~LiteralBoolean(h.body.disponivel))
                 => /\ h.status = 400
                    /\ h.pc = "done"
                    /\ (i \notin DOMAIN reqs \/ reqs[i] # h) => pratos' = pratos]_vars

\* { disponivel: "yes" } for dish 3 was answered 400 and left the dish as a
\* PATCH with { disponivel: true } had made it
C11_Witness ==
    /\ Len(reqs) = 2
    /\ reqs[1].op = "alterarDisponibilidade" /\ reqs[1].id = <<"3">>
    /\ reqs[1].body.disponivel = Bool(TRUE) /\ reqs[1].status = 200
    /\ reqs[2].op = "alterarDisponibilidade" /\ reqs[2].id = <<"3">>
    /\ reqs[2].body.disponivel = Yes /\ reqs[2].status = 400
    /\ \E p \in pratos : p.id_prato = 3 /\ p.disponivel

\* the stored dishes whose id, written in decimal, is the id of the path
WithId(ps, id) == {p \in ps : Digits(p.id_prato) = id}

\* C12: GET /api/cardapio/prato/:id answers with the dish when a dish of
\* that id is stored and available at the time of the read, and with 404
\* when no dish has that id or the dish is unavailable.
C12_PublicDish ==
    [][\A i \in DOMAIN reqs :
          (getPratoById(i) /\ reqs[i].op = "getPratoPublico")
             => LET h == reqs'[i]
                    found == {p \in WithId(pratos, h.id) : p.disponivel}
                IN  IF found # {}
                    THEN h.status = 200 /\ h.prato \in found
                    ELSE h.status = 404]_vars

RECURSIVE Concat(_)
Concat(seqs) == IF seqs = << >> THEN << >> ELSE Head(seqs) \o Concat(Tail(seqs))

\* C13: the menu holds exactly the stored dishes whose disponivel is true,
\* each once and under its own category; its categories are in ascending
\* display order and the dishes of each in ascending name order; and it
\* has no category without a dish.
C13_Menu ==
    [][\A i \in DOMAIN reqs :
          getPratosDisponiveis(i)
             => LET cardapio == reqs'[i].cardapio
                    todos == Concat([k \in DOMAIN cardapio |-> cardapio[k].pratos])
                IN  /\ {todos[k] : k \in DOMAIN todos} = {p \in pratos : p.disponivel}
                    /\ Len(todos) = Cardinality({p \in pratos : p.disponivel})
                    /\ \A k \in DOMAIN cardapio :
                          /\ Len(cardapio[k].pratos) > 0
                          /\ \A j \in DOMAIN cardapio[k].pratos :
                                cardapio[k].pratos[j].id_categoria = cardapio[k].categoria
                          /\ \A j \in 1..(Len(cardapio[k].pratos) - 1) :
                                NomeLeq(cardapio[k].pratos[j].nome_prato,
                                        cardapio[k].pratos[j + 1].nome_prato)
                    /\ \A k \in 1..(Len(cardapio) - 1) :
                          cardapio[k].ordem_exibicao < cardapio[k + 1].ordem_exibicao]_vars

\* the fields of the body that are present
Sent(body) == {f \in DOMAIN body : body[f] # Undefined}

\* the value a PUT request asks for in field f: the texts trimmed, the price
\* and the category id as numbers, the availability as a boolean
Asked(body, f) ==
    CASE f \in {"nome_prato", "descricao"} -> Trim(body[f].v)
      [] f = "preco" -> parseFloat(body[f])
      [] f = "id_categoria" -> parseInt(body[f]).n
      [] f = "disponivel" -> ~Falsy(body[f])

\* C14: the step that completes a PUT request with 200 replaces the stored
\* dish of that id by one that has the asked value in every field the body
\* holds and the old value in every other field, id_prato and codigo_prato
\* among them, and leaves all other dishes as they are; no other step of a
\* PUT request changes a stored dish.
C14_UpdateChangesSentFields ==
    [][\A i \in DOMAIN reqs :
          (reqs[i].op = "atualizarPrato" /\ reqs'[i] # reqs[i])
             => IF reqs'[i].status = 200
                THEN \E old \in WithId(pratos, reqs[i].id) :
                        LET new == reqs'[i].prato
                        IN  /\ pratos' = (pratos \ {old}) \cup {new}
                            /\ DOMAIN new = DOMAIN old
                            /\ \A f \in DOMAIN old :
                                  new[f] = IF f \in Sent(reqs[i].body)
                                           THEN Asked(reqs[i].body, f) ELSE old[f]
                ELSE pratos' = pratos]_vars

\* a PUT with only a name for dish 1 and a PUT with a description and a
\* price for dish 3 were both answered 200, and each dish shows its own
\* request's fields only
C14_Witness ==
    /\ \E i \in DOMAIN reqs :
          /\ reqs[i].op = "atualizarPrato" /\ reqs[i].id = <<"1">>
          /\ Sent(reqs[i].body) = {"nome_prato"} /\ reqs[i].status = 200
    /\ \E i \in DOMAIN reqs :
          /\ reqs[i].op = "atualizarPrato" /\ reqs[i].id = <<"3">>
          /\ Sent(reqs[i].body) = {"descricao", "preco"} /\ reqs[i].status = 200
    /\ \E p \in pratos :
          /\ p.id_prato = 1 /\ p.nome_prato = <<"P", "a", "o">>
          /\ p.preco = SeedPrato(1).preco /\ p.disponivel
    /\ \E p \in pratos :
          /\ p.id_prato = 3 /\ p.nome_prato = SeedNome[3]
          /\ p.descricao = <<"y">> /\ p.preco = Num(25, 2)

-----------------------------------------------------------------------------
(* middleware/auth.js: tokens, the two rate limiters, and the login route. *)

JWT_SECRET == "manda-cafe-secret-key-2025"
Issuer == "manda-cafe-api"
Audience == "manda-cafe-admin"

AuthMax == 5
AdminMax == 50

\* what jwt.verify looks at in a token, and the payload it returns
Jwt(signature, expired, audience, role) ==
    [t |-> "jwt", signature |-> signature, expired |-> expired, issuer |-> Issuer,
     audience |-> audience, payload |-> [role |-> role]]

EmptyToken == [t |-> "empty"]
NoToken == [t |-> "undefined"]

\* jwt.verify(token, JWT_SECRET, {issuer, audience}) does not throw
verifyToken(token) ==
    /\ token.t = "jwt"
    /\ token.signature = JWT_SECRET
    /\ ~token.expired
    /\ token.issuer = Issuer
    /\ token.audience = Audience

Pass(user) == [status |-> 0, by |-> "next", user |-> user, checked |-> FALSE]
Reject(status, by) == [status |-> status, by |-> by, user |-> NoUser, checked |-> FALSE]

\* authHeader && authHeader.split(' ')[1]; a header is the sequence of its
\* space-separated parts
HeaderToken(authHeader) == IF Len(authHeader) >= 2 THEN authHeader[2] ELSE NoToken

authenticateToken(req) ==
    LET token == HeaderToken(req.authorization)
    IN  IF token.t \in {"undefined", "empty"}
        THEN Reject(401, "authenticateToken")
        ELSE IF verifyToken(token) THEN Pass(token.payload)
        ELSE Reject(403, "authenticateToken")

AllowedAny(allowedRoles, user) == Pass(user)

authorizeRole(allowedRoles, user) ==
    IF user = NoUser THEN Reject(401, "authorizeRole")
    ELSE IF user.role \notin allowedRoles THEN Reject(403, "authorizeRole")
    ELSE Pass(user)

AdminRoles == {"admin", "manager"}

RateLimitedLate(hits, max) == hits > max + 1

\* express-rate-limit: the request that brings the client's hits in the
\* window above max, and every one after it, goes to the handler (429)
RateLimited(hits, max) == hits > max

StaticKey == "admin-key-123"
Administrador == [id |-> 1, nome |-> "Administrador", role |-> "admin"]

\* middleware/auth.js (trivial scheme): any non-empty bearer token, or the
\* static API key when the header is not a bearer one
verificarAutenticacao(req) ==
    LET authHeader == req.authorization
        bearer == Len(authHeader) >= 2 /\ authHeader[1] = "Bearer"
    IN  IF bearer /\ authHeader[2].t # "empty" THEN Pass(Administrador)
        ELSE IF ~bearer /\ req.apiKey = StaticKey THEN Pass(Administrador)
        ELSE Reject(401, "verificarAutenticacao")

\* the middleware chain of the mounted routes/admin.js, given the client's
\* hits counted so far
AdminChain(r, req, hits) ==
    IF r = "trivial" THEN verificarAutenticacao(req)
    ELSE IF RateLimited(hits, AdminMax) THEN Reject(429, "adminRateLimit")
    ELSE LET a == authenticateToken(req)
         IN  IF a.status # 0 THEN a ELSE authorizeRole(AdminRoles, a.user)

Reached(user, route) == [status |-> 0, by |-> route, user |-> user, checked |-> FALSE]

\* a request to /api/admin/...: the chain, and the controller if it lets the
\* request through
adminRoute(req) ==
    /\ adminHits' = IF router = "jwt" THEN [adminHits EXCEPT ![req.ip] = @ + 1]
                    ELSE adminHits
    /\ LET answer == AdminChain(router, req, adminHits'[req.ip])
       IN  IF answer.status # 0
           THEN reply' = answer /\ reqs' = reqs
           ELSE /\ reply' = Reached(answer.user, req.route)
                /\ reqs' = IF req.route = "POST /pratos"
                           THEN Append(reqs, criarPratoValue(req.body))
                           ELSE reqs
    /\ UNCHANGED <<loginHits, router, backend, pratos, seq, monVars, appVars>>

\* the limiter's window ends: its store forgets every client
adminWindowEnds ==
    /\ adminHits' = [ip \in DOMAIN adminHits |-> 0]
    /\ UNCHANGED <<loginHits, reply, router, dbVars, monVars, appVars>>

\* adminUsers; the stored bcrypt strings are 61 characters long
adminUsers ==
    { [id |-> 1, username |-> <<"a", "d", "m", "i", "n">>, email |-> <<"a", "d", "m", "i", "n", "@", "m", "a", "n", "d", "a", "c", "a", "f", "e", ".", "c", "o", "m">>,
       senha |-> <<"a", "d", "m", "i", "n", "1", "2", "3">>, hashLength |-> 61, role |-> "admin", active |-> TRUE],
      [id |-> 2, username |-> <<"m", "a", "n", "a", "g", "e", "r">>, email |-> <<"m", "a", "n", "a", "g", "e", "r", "@", "m", "a", "n", "d", "a", "c", "a", "f", "e", ".", "c", "o", "m">>,
       senha |-> <<"m", "a", "n", "a", "g", "e", "r", "1", "2", "3">>, hashLength |-> 61, role |-> "manager", active |-> TRUE] }

\* bcrypt.compare(password, hash): false for a string that is not 60
\* characters long, else whether hash is a hash of password
verifyPassword(password, user) == user.hashLength = 60 /\ password = user.senha

\* notEmpty().isLength({ min })
ValidField(value, min) == Len(value) > 0 /\ Len(value) >= min

\* loginValidation leaves no error
loginValidation(body) == ValidField(body.username, 3) /\ ValidField(body.password, 6)

LoginReply(status, by, user, checked) ==
    [status |-> status, by |-> by, user |-> user, checked |-> checked]

\* authenticateUser and what the route answers with its outcome
authenticateUser(body) ==
    LET found == {u \in adminUsers :
                    (u.username = body.username \/ u.email = body.username) /\ u.active}
    IN  IF found = {} THEN LoginReply(401, "login", NoUser, TRUE)
        ELSE LET user == CHOOSE u \in found : TRUE
             IN  IF verifyPassword(body.password, user)
                 THEN LoginReply(200, "login", [role |-> user.role], TRUE)
                 ELSE LoginReply(401, "login", NoUser, TRUE)

\* POST /api/auth/login: authRateLimit, loginValidation, the handler
login(ip, body) ==
    /\ loginHits' = [loginHits EXCEPT ![ip] = @ + 1]
    /\ reply' =
          IF RateLimited(loginHits'[ip], AuthMax)
          THEN Reject(429, "authRateLimit")
          ELSE IF ~loginValidation(body) THEN Reject(400, "login")
          ELSE authenticateUser(body)
    /\ UNCHANGED <<adminHits, router, dbVars, monVars, appVars>>

authWindowEnds ==
    /\ loginHits' = [ip \in DOMAIN loginHits |-> 0]
    /\ UNCHANGED <<adminHits, reply, router, dbVars, monVars, appVars>>

\* a route of routes/auth.js behind authenticateToken alone: its answer,
\* or the handler's 200
Guarded(route, req) ==
    LET a == authenticateToken(req)
    IN  IF a.status # 0
        THEN Served(a.by, req, a.status, [success |-> FALSE], 0)
        ELSE Served(route, req, 200, [success |-> TRUE], 0)

\* POST /api/auth/logout: the handler writes a log line and answers 200;
\* it keeps no list of tokens
logout(req) ==
    /\ served' = Guarded("POST /api/auth/logout", req)
    /\ UNCHANGED <<globalHits, proc, gateVars, dbVars, monVars>>

\* GET /api/auth/me
me(req) ==
    /\ served' = Guarded("GET /api/auth/me", req)
    /\ UNCHANGED <<globalHits, proc, gateVars, dbVars, monVars>>

-----------------------------------------------------------------------------
(* Clients of the admin routes and of the login route.                     *)

MaxOver == 1
MaxGated == 1

ClientIPs == {"10.0.0.1", "10.0.0.2"}
AdminIP == "10.0.0.1"

Tokens ==
    { Jwt(JWT_SECRET, FALSE, Audience, "admin"),
      Jwt(JWT_SECRET, FALSE, Audience, "manager"),
      Jwt(JWT_SECRET, FALSE, Audience, "viewer"),
      Jwt(JWT_SECRET, TRUE, Audience, "admin"),
      Jwt(JWT_SECRET, FALSE, "manda-cafe-app", "admin"),
      Jwt("guessed-key", FALSE, Audience, "admin"),
      [t |-> "opaque"],
      EmptyToken }

Headers ==
    { << >>, <<"Bearer">>, <<"Basic", Jwt(JWT_SECRET, FALSE, Audience, "admin")>> }
    \cup {<<"Bearer", token>> : token \in Tokens}

ApiKeys == {"none", StaticKey, "admin-key-124"}

AdminRoutes == {"POST /pratos", "GET /test-auth"}

\* the JWT router does not read X-API-Key
AdminRequests(r) ==
    [ip : {AdminIP}, authorization : Headers,
     apiKey : IF r = "trivial" THEN ApiKeys ELSE {"none"},
     route : AdminRoutes, body : {BoloBody}]

GateInit ==
    /\ router \in {"jwt", "trivial"}
    /\ adminHits = [ip \in ClientIPs |-> 0]
    /\ loginHits = [ip \in ClientIPs |-> 0]
    /\ reply = NoReply
    /\ MonInit
    /\ DbInit("prisma")
    /\ AppOff

GateNext ==
    \/ \E req \in AdminRequests(router) :
          /\ adminHits[req.ip] < AdminMax + MaxOver
          /\ req.route = "POST /pratos" => Arrived < MaxGated
          /\ adminRoute(req)
    \/ router = "jwt" /\ adminWindowEnds
    \/ \E i \in DOMAIN reqs : getCategoriaById(i)
    \/ \E i \in DOMAIN reqs : findFirst(i)
    \/ \E i \in DOMAIN reqs : create(i)

SpecGate == GateInit /\ [][GateNext]_vars

LoginBodies ==
    { [username |-> <<"a", "d", "m", "i", "n">>, password |-> <<"a", "d", "m", "i", "n", "1", "2", "3">>],
      [username |-> <<"a", "d", "m", "i", "n">>, password |-> <<"w", "r", "o", "n", "g", "1", "2">>],
      [username |-> <<"a", "d", "m", "i", "n", "@", "m", "a", "n", "d", "a", "c", "a", "f", "e", ".", "c", "o", "m">>, password |-> <<"a", "d", "m", "i", "n", "1", "2", "3">>],
      [username |-> <<"g", "h", "o", "s", "t">>, password |-> <<"a", "d", "m", "i", "n", "1", "2", "3">>],
      [username |-> <<"a", "b">>, password |-> <<"a", "d", "m", "i", "n", "1", "2", "3">>],
      [username |-> <<"a", "d", "m", "i", "n">>, password |-> <<"1", "2", "3">>],
      [username |-> << >>, password |-> << >>] }

LoginInit ==
    /\ router = "jwt"
    /\ adminHits = [ip \in ClientIPs |-> 0]
    /\ loginHits = [ip \in ClientIPs |-> 0]
    /\ reply = NoReply
    /\ MonInit
    /\ DbOff
    /\ AppOff

\* requests to the token-guarded routes of routes/auth.js
AuthRequests == [ip : {AdminIP}, authorization : Headers]

LoginNext ==
    \/ \E ip \in ClientIPs, body \in LoginBodies :
          loginHits[ip] < AuthMax + MaxOver /\ login(ip, body)
    \/ authWindowEnds
    \/ \E req \in AuthRequests : logout(req)
    \/ \E req \in AuthRequests : me(req)

SpecLogin == LoginInit /\ [][LoginNext]_vars

-----------------------------------------------------------------------------
(* Properties of the admin gate and of the login limiter.                  *)

\* the request carries a token that authenticates under the mounted router:
\* a token this API signed for its audience and that has not expired, or,
\* under the trivial scheme, any non-empty bearer token or the static API key
Authenticates(r, req) ==
    LET parts == req.authorization
    IN  IF r = "jwt"
        THEN /\ Len(parts) >= 2
             /\ parts[2].t = "jwt"
             /\ parts[2].signature = JWT_SECRET
             /\ parts[2].audience = Audience
             /\ ~parts[2].expired
        ELSE \/ Len(parts) >= 2 /\ parts[1] = "Bearer" /\ parts[2].t # "empty"
             \/ req.apiKey = StaticKey

\* the role of the identity the request's credentials stand for
RoleOf(r, req) == IF r = "jwt" THEN req.authorization[2].payload.role ELSE "admin"

Entitled(r, req) == Authenticates(r, req) /\ RoleOf(r, req) \in {"admin", "manager"}

\* C7: on every administrative route the controller runs only for a request
\* whose token authenticates and whose identity has the role admin or
\* manager; every other request is answered 401, 403 or 429 by the
\* middleware, starts no controller operation and changes no stored dish.
C7_OnlyEntitledReachController ==
    [][\A req \in AdminRequests(router) :
          adminRoute(req) =>
              /\ reply'.by \in AdminRoutes =>
                    Entitled(router, req) /\ reply'.user.role \in {"admin", "manager"}
              /\ ~Entitled(router, req) =>
                    /\ reply'.status \in {401, 403, 429}
                    /\ reply'.by \notin AdminRoutes
                    /\ reqs' = reqs
                    /\ pratos' = pratos]_vars

\* a manager's request created a dish, and a later request was turned away
\* with 403 while the dish stayed stored
C7_Witness ==
    /\ reply.status = 403
    /\ reply.by = "authorizeRole"
    /\ Len(reqs) = 1
    /\ reqs[1].status = 201
    /\ reqs[1].prato \in pratos

\* C8: once a client address has made 5 login attempts in the limiter's
\* window, every further attempt from it in that window is answered 429
\* without the credentials being checked, whatever the credentials are.
C8_SixthLoginIs429 ==
    [][\A ip \in ClientIPs, body \in LoginBodies :
          (login(ip, body) /\ loginHits[ip] >= AuthMax) =>
              /\ reply'.status = 429
              /\ ~reply'.checked]_vars

\* a sixth attempt answered 429 while the other address, with fewer
\* attempts, had its credentials checked before
C8_Witness ==
    /\ reply.status = 429
    /\ reply.by = "authRateLimit"
    /\ \E ip \in ClientIPs : loginHits[ip] = AuthMax + 1
    /\ \E ip \in ClientIPs : loginHits[ip] \in 1..AuthMax


-----------------------------------------------------------------------------
(* index.js: the global rate limiter in front of every route, the          *)
(* liveness probe, and the last error middleware.                          *)

GlobalMax == 100

ProbeIPs == {AdminIP}

TooManyRequests ==
    [error |-> "Muitas requisições deste IP, tente novamente em 15 minutos."]

Get(ip, url) == [ip |-> ip, method |-> "GET", url |-> url]

\* app.use(limiter), mounted before every route: it counts the request and
\* answers 429 itself once the client is over max in the window
limiter(req, hits) ==
    IF RateLimited(hits, GlobalMax)
    THEN Served("limiter", req, 429, TooManyRequests, 0)
    ELSE Served("limiter", req, 0, NoJson, 1)

\* a request for url from ip: the limiter, then, if it calls next(), the
\* route; the monitoring middleware between the two sends no response
Route(ip, url, answer) ==
    /\ globalHits' = [globalHits EXCEPT ![ip] = @ + 1]
    /\ LET limited == limiter(Get(ip, url), globalHits'[ip])
       IN  served' = IF limited.nexts = 0 THEN limited ELSE answer
    /\ UNCHANGED <<proc, monVars, gateVars, dbVars>>

\* app.get('/health')
getHealth(ip) ==
    Route(ip, "/health", Served("GET /health", Get(ip, "/health"), 200, [status |-> "OK"], 0))

\* app.use('*'): a path no route matches
notFound(ip) ==
    Route(ip, "/nada", Served("*", Get(ip, "/nada"), 404, [error |-> "Endpoint não encontrado"], 0))

\* the limiter's window of 15 minutes ends
limiterWindowEnds ==
    /\ globalHits' = [ip \in DOMAIN globalHits |-> 0]
    /\ UNCHANGED <<served, proc, monVars, gateVars, dbVars>>

\* the probe is asked with the database connected or not
ProbeInit ==
    /\ MonInit
    /\ GateOff
    /\ \/ DbOff
       \/ DbInit("prisma")
    /\ globalHits = [ip \in ProbeIPs |-> 0]
    /\ served = NoServed
    /\ proc = Listening

ProbeNext ==
    \/ \E ip \in ProbeIPs : globalHits[ip] < GlobalMax + MaxOver /\ getHealth(ip)
    \/ \E ip \in ProbeIPs : globalHits[ip] < GlobalMax + MaxOver /\ notFound(ip)
    \/ limiterWindowEnds

SpecProbe == ProbeInit /\ [][ProbeNext]_vars

\* C15: while the process is running, every GET /health request is answered
\* with status 200, however many requests the client has sent before and
\* whatever the state of the database.
C15_HealthIs200 ==
    [][\A ip \in ProbeIPs :
          (proc.state = "running" /\ getHealth(ip)) => served'.status = 200]_vars

GenericError == "Erro interno do servidor"
GenericMessage == "Ocorreu um erro inesperado no servidor"

ErrorJson(error, message, details) ==
    [error |-> error, message |-> message, details |-> details]

\* app.use((err, req, res, next) => ...) of index.js
errorHandlerValue(err, env) ==
    LET statusCode == IF Falsy(err.statusCode) THEN 500 ELSE err.statusCode.v.n
    IN  Served("errorHandler", [err |-> err], statusCode,
               ErrorJson(IF statusCode = 500 THEN GenericError ELSE err.message,
                         IF statusCode = 500 THEN GenericMessage ELSE err.message,
                         IF env = "development" THEN Str(err.stack) ELSE Undefined),
               0)

\* the same middleware in the earlier entry file
errorHandlerV2Value(err, env) ==
    Served("errorHandler", [err |-> err], 500,
           ErrorJson(GenericError, GenericMessage,
                     IF env = "development" THEN Str(<<err.message>>) ELSE Undefined),
           0)

\* an error reaches the end of the chain; errorMetrics and errorLogger
\* before it pass the same err on with next(err)
errorHandler(err) ==
    /\ served' = IF proc.entry = "index.js" THEN errorHandlerValue(err, proc.env)
                 ELSE errorHandlerV2Value(err, proc.env)
    /\ UNCHANGED <<globalHits, proc, monVars, gateVars, dbVars>>

\* errors thrown by handlers (no statusCode) and errors made by http-errors,
\* as body-parser raises them for malformed and oversized bodies
ThrownErrors ==
    [statusCode : {Undefined, Number(Zero), Number(Num(400, 1)), Number(Num(404, 1)),
                   Number(Num(413, 1)), Number(Num(500, 1)), Number(Num(503, 1))},
     message : {"Unexpected token } in JSON at position 9", "request entity too large",
                "x is not a function"},
     stack : {<<"at", "parse">>}]

Envs == {"production", "development", "unset"}

FailInit ==
    /\ MonInit
    /\ GateOff
    /\ DbOff
    /\ globalHits = << >>
    /\ served = NoServed
    /\ \E entry \in {"index.js", "part_008"}, env \in Envs :
          proc = [Listening EXCEPT !.entry = entry, !.env = env]

FailNext == \E err \in ThrownErrors : errorHandler(err)

SpecFail == FailInit /\ [][FailNext]_vars

\* C16: for every error that reaches the last error middleware the response
\* has status 500 and the generic texts, and outside development it carries
\* no detail of the error.
C16_ErrorsAreGeneric500 ==
    served.by = "errorHandler"
        => /\ served.status = 500
           /\ served.body.error = GenericError
           /\ served.body.message = GenericMessage
           /\ proc.env # "development" => served.body.details = Undefined

-----------------------------------------------------------------------------
(* index.js: shutdown.  Each signal and each uncaught error starts a       *)
(* gracefulShutdown of its own; the server is never closed, so requests    *)
(* keep arriving and finishing until process.exit.                         *)

MaxEvents == 3

ShutdownEvents == {"SIGTERM", "SIGINT", "uncaughtException", "unhandledRejection"}

exitsAtOnce(p) == [p EXCEPT !.state = "exited", !.exitCode = 0]

\* gracefulShutdown up to its await: database.disconnect() has been called
\* and prisma.$disconnect() is under way
gracefulShutdown(p) == [p EXCEPT !.disconnecting = @ + 1]

\* process.on(ev, ...) runs its listener
shutdownEvent(ev) ==
    /\ proc.state = "running"
    /\ proc' = gracefulShutdown([proc EXCEPT !.events = Append(@, ev)])
    /\ UNCHANGED <<globalHits, served, monVars, gateVars, dbVars>>

\* prisma.$disconnect() of one shutdown settles: disconnect() resolves
\* whether it fulfilled or rejected, and gracefulShutdown goes on to
\* process.exit(0); its catch with process.exit(1) is never entered
disconnectSettles ==
    /\ proc.state = "running"
    /\ proc.disconnecting > proc.disconnected
    /\ proc' = [proc EXCEPT !.disconnected = @ + 1, !.state = "exited", !.exitCode = 0]
    /\ UNCHANGED <<globalHits, served, monVars, gateVars, dbVars>>

\* the server accepts a request
requestArrives ==
    /\ proc.state = "running"
    /\ proc' = [proc EXCEPT !.open = @ + 1]
    /\ UNCHANGED <<globalHits, served, monVars, gateVars, dbVars>>

\* a response is sent
requestFinishes ==
    /\ proc.state = "running"
    /\ proc.open > 0
    /\ proc' = [proc EXCEPT !.open = @ - 1]
    /\ UNCHANGED <<globalHits, served, monVars, gateVars, dbVars>>

ShutdownInit == MonInit /\ GateOff /\ DbInit("prisma") /\ AppOff

ShutdownNext ==
    \/ \E ev \in ShutdownEvents : Len(proc.events) < MaxEvents /\ shutdownEvent(ev)
    \/ disconnectSettles
    \/ proc.open < MaxInflight /\ requestArrives
    \/ requestFinishes

\* a disconnect that was started settles; nothing makes a request finish
SpecShutdown == ShutdownInit /\ [][ShutdownNext]_vars /\ WF_vars(disconnectSettles)

\* C17: whatever signals and uncaught errors arrive, the process has not
\* exited unless a database disconnect was started and has settled, and
\* once the first of them has arrived the process exits, whether or not the
\* requests it is serving ever finish.
C17_ExitsAfterDisconnect ==
    /\ [](proc.state = "exited" => proc.disconnecting >= 1 /\ proc.disconnected >= 1)
    /\ [](proc.events # << >> => <>(proc.state = "exited"))

\* the process exited with code 0 after a SIGTERM and a repeated signal,
\* one disconnect settled and one still under way, a request unanswered
C17_Witness ==
    /\ proc.state = "exited"
    /\ proc.exitCode = 0
    /\ Len(proc.events) >= 2
    /\ proc.events[1] = "SIGTERM"
    /\ proc.disconnected = 1
    /\ proc.disconnecting > proc.disconnected
    /\ proc.open > 0

-----------------------------------------------------------------------------
(* securityMonitor on requests of every kind.  index.js mounts it before   *)
(* the body parsers, where req.body is not set; the bodies are for a       *)
(* mounting after them.                                                    *)

MaxFlagged == 2

Scans ==
    [url : {<<"/", "a", "p", "i", "/", "c", "a", "r", "d", "a", "p", "i", "o">>,
            <<"/", "a", "p", "i", "?", "q", "=", "S", "E", "L", "E", "C", "T">>,
            <<"/", "a", "p", "i", "/", "a", "d", "m", "i", "n", "/", "p", "r", "a", "t", "o", "s">>},
     body : {NoBody,
             <<"{", "n", "o", "m", "e", ":", "B", "o", "l", "o", "}">>,
             <<"{", "n", "o", "m", "e", ":", "<", "S", "c", "r", "i", "p", "t", ">", "}">>},
     userAgent : {<< >>, <<"M", "o", "z", "i", "l", "l", "a">>, <<"c", "u", "r", "l">>,
                  <<"G", "o", "o", "g", "l", "e", "b", "o", "t">>}]

ScanNext ==
    \/ \E req \in Scans :
          /\ IsSuspicious(req) => Flagged < MaxFlagged
          /\ securityMonitor(req)
    \/ \E req \in MonRequests : Started < 1 /\ metricsCollector(req)
    \/ \E r \in BagToSet(inflight) : onFinish(r, 200)

SpecScan == MonOnly /\ [][ScanNext]_vars

\* C18: for every request securityMonitor calls next() once, sends no
\* response and leaves req as it was, and of the state it changes at most
\* metrics.security.suspiciousRequests, by adding one.
C18_MonitorOnlyCounts ==
    [][\A req \in Scans :
          securityMonitor(req)
             => /\ served'.nexts = 1
                /\ served'.status = 0
                /\ served'.req = req
                /\ metrics' = metrics
                /\ DOMAIN heap' = DOMAIN heap
                /\ \A r \in DOMAIN heap : r # metrics["security"] => heap'[r] = heap[r]
                /\ \E n \in {0, 1} :
                      heap'[metrics["security"]] =
                         [M("security") EXCEPT !.suspiciousRequests = @ + n]
                /\ UNCHANGED <<inflight, now, snapshot, health, recorded, gateVars,
                               dbVars, globalHits, proc>>]_vars

\* a request with a script tag in its body was counted as suspicious and
\* passed on, next to the request counted by metricsCollector
C18_Witness ==
    /\ served.by = "securityMonitor"
    /\ served.nexts = 1
    /\ served.status = 0
    /\ IsSuspicious(served.req)
    /\ served.req.body # NoBody
    /\ Flagged = MaxFlagged
    /\ Started = 1

-----------------------------------------------------------------------------
(* Properties of the trivial scheme and of logout.                         *)

C20_LogoutInvalidates ==
    [][\A req \in AuthRequests :
          ( /\ served.by = "POST /api/auth/logout"
            /\ served.status = 200
            /\ req.authorization = served.req.authorization
            /\ me(req) )
             => served'.status \in {401, 403}]_vars

-----------------------------------------------------------------------------
(* index.js: a request on its way through app.use(limiter),                *)
(* app.use(metricsCollector), app.use(securityMonitor) and on to the body  *)
(* parsers and the routes.                                                 *)

\* a request as the server receives it: req.body is set by bodyParser.json,
\* which is mounted after the monitoring middleware, from the payload
Incoming(method, path, url, payload, userAgent) ==
    [method |-> method, path |-> path, route |-> NoRoute, url |-> url,
     payload |-> payload, body |-> NoBody, userAgent |-> userAgent]

Arrivals ==
    { Incoming(method, target[1], target[2], payload, userAgent) :
        method \in {"GET", "POST"},
        target \in { <<"/api/cardapio",
                       <<"/", "a", "p", "i", "/", "c", "a", "r", "d", "a", "p", "i", "o">> >>,
                     <<"/api",
                       <<"/", "a", "p", "i", "?", "q", "=", "U", "n", "i", "o", "n">> >> },
        payload \in { NoBody,
                      <<"{", "n", "o", "m", "e", ":", "B", "o", "l", "o", "}">>,
                      <<"{", "n", "o", "m", "e", ":", "<", "S", "c", "r", "i", "p", "t", ">", "}">> },
        userAgent \in { <<"M", "o", "z", "i", "l", "l", "a">>, <<"c", "u", "r", "l">> } }

\* the chain for one request from ip: the limiter answers 429 itself or
\* calls next(); then metricsCollector and securityMonitor run, in that
\* order, each ending with next()
incoming(ip, req) ==
    /\ globalHits' = [globalHits EXCEPT ![ip] = @ + 1]
    /\ LET limited == limiter(req, globalHits'[ip])
       IN  IF limited.nexts = 0
           THEN /\ served' = limited
                /\ heap' = heap
                /\ inflight' = inflight
           ELSE /\ served' = securityMonitorValue(req)
                /\ heap' = FlagRequest(CountRequest(heap, metrics, req), metrics, req)
                /\ inflight' = inflight (+) One(Pended(req, now))
    /\ UNCHANGED <<metrics, now, snapshot, health, recorded, proc, gateVars, dbVars>>

ChainInit ==
    /\ MonInit
    /\ GateOff
    /\ DbOff
    /\ globalHits = [ip \in ProbeIPs |-> 0]
    /\ served = NoServed
    /\ proc = Listening

\* the arrivals of one window of the limiter; the suspicious ones are
\* bounded, and so are the POSTs and the requests for /api
ChainNext ==
    \E ip \in ProbeIPs, req \in Arrivals :
        /\ globalHits[ip] < GlobalMax + MaxOver
        /\ IsSuspicious(req) => Flagged < MaxFlagged
        /\ req.method = "POST" => Started < MaxEach
        /\ req.path = "/api" => Started < MaxEach
        /\ incoming(ip, req)

SpecChain == ChainInit /\ [][ChainNext]_vars

\* the request's url or its payload contains one of the fixed patterns
Matches(req) ==
    \E pattern \in suspiciousPatterns :
        TestI(pattern, req.url) \/ TestI(pattern, req.payload)

\* C21: a request that passes through the chain adds exactly one to
\* metrics.security.suspiciousRequests when its path or its body contains
\* one of the patterns, and leaves the counter as it was otherwise, bot
\* user agents included.
C21_PatternsAreCounted ==
    [][\A ip \in ProbeIPs, req \in Arrivals :
          (incoming(ip, req) /\ served'.by = "securityMonitor")
             => heap'[metrics["security"]].suspiciousRequests =
                   Flagged + (IF Matches(req) THEN 1 ELSE 0)]_vars

\* C22: every incoming request adds one to requests.total, to byMethod of
\* its method and to byEndpoint of its endpoint, before a route runs.
C22_EveryRequestIsCounted ==
    [][\A ip \in ProbeIPs, req \in Arrivals :
          incoming(ip, req)
             => LET after == heap'[metrics["requests"]]
                    Of(map, key) == IF key \in DOMAIN map THEN map[key] ELSE 0
                IN  /\ after.total = Started + 1
                    /\ Of(after.byMethod, req.method) =
                          Of(M("requests").byMethod, req.method) + 1
                    /\ Of(after.byEndpoint, Endpoint(req)) =
                          Of(M("requests").byEndpoint, Endpoint(req)) + 1]_vars

-----------------------------------------------------------------------------
(* recordDatabaseOperation next to the recording of requests and errors.   *)

MaxQueries == 3

QueryTimes == {0, 500, 501, 900}

DbMetricsNext ==
    \/ \E duration \in QueryTimes :
          Queried < MaxQueries /\ recordDatabaseOperation("findMany", duration)
    \/ Ticks(TickMs) < 1 /\ Tick(TickMs)
    \/ \E req \in MonRequests : Started < 1 /\ metricsCollector(req)
    \/ \E r \in BagToSet(inflight) : onFinish(r, 200)
    \/ \E error \in MonErrors, req \in MonRequests :
          Failed < 1 /\ errorMetrics(error, req, "10.0.0.1")

SpecDbMetrics == MonOnly /\ [][DbMetricsNext]_vars

RECURSIVE SumOf(_)
SumOf(durations) ==
    IF durations = << >> THEN 0 ELSE Head(durations) + SumOf(Tail(durations))

\* C23: with no reset, after K database operations were recorded, among
\* request starts, finishes and errors in any order, database.queries is K,
\* averageQueryTime is the mean of the K durations and slowQueries is the
\* number of them over 500; recording a database operation changes no other
\* group and no other recording changes the database group.
C23_DatabaseMetrics ==
    /\ [](LET durations == recorded.queries
              K == Len(durations)
          IN  /\ Queried = K
              /\ M("database").averageQueryTime =
                    (IF K = 0 THEN Zero ELSE Num(SumOf(durations), K))
              /\ M("database").slowQueries =
                    Cardinality({i \in 1..K : durations[i] > 500}))
    /\ [][IF recorded'.queries # recorded.queries
          THEN \A g \in Groups \ {"database"} : heap'[metrics'[g]] = M(g)
          ELSE heap'[metrics'["database"]] = M("database")]_vars

\* three operations of 500, 501 and 900 ms were recorded around a request
\* that took 1500 ms and an error
C23_Witness ==
    /\ Len(recorded.queries) = 3
    /\ \A q \in {500, 501, 900} : \E i \in 1..3 : recorded.queries[i] = q
    /\ M("database").slowQueries = 2
    /\ recorded.n = 1
    /\ AverageOf(MetricsView) = Num(TickMs, 1)
    /\ Failed = 1

-----------------------------------------------------------------------------
(* Creates one after the other and at once, against the Prisma database.   *)

MaxCodes == 3

CodesNext ==
    \/ \E body \in {BoloBody, [BoloBody EXCEPT !.descricao = Undefined]} :
          Arrived < MaxCodes /\ criarPrato(body)
    \/ \E i \in DOMAIN reqs : getCategoriaById(i)
    \/ \E i \in DOMAIN reqs : findFirst(i)
    \/ \E i \in DOMAIN reqs : create(i)

SpecCodes == PrismaInit /\ [][CodesNext]_vars

\* C24: every dish stored by a create has the code PRATO followed by its
\* own id, zero-padded to three digits, whatever creates succeeded or failed
\* before.
C24_CodeFollowsId ==
    \A p \in pratos \ Seeded : p.codigo_prato = CodigoPrato(p.id_prato)

-----------------------------------------------------------------------------
(* Every operation of the admin router that writes, next to the admin      *)
(* fetch by id.                                                            *)

KeepNext ==
    \/ \E body \in MenuCreates : Arrived < MaxOps /\ criarPrato(body)
    \/ \E i \in DOMAIN reqs : getCategoriaById(i)
    \/ \E i \in DOMAIN reqs : findFirst(i)
    \/ \E i \in DOMAIN reqs : create(i)
    \/ \E payload \in {Bool(TRUE), Bool(FALSE)} :
          Arrived < MaxOps /\ alterarDisponibilidade(<<"3">>, Disponibilidade(payload))
    \/ \E body \in MenuUpdates : Arrived < MaxOps /\ atualizarPrato(<<"3">>, body)
    \/ \E id \in {<<"3">>, <<"1", "1">>, <<"9", "9">>} :
          Arrived < MaxOps /\ getPratoPorId(id)
    \/ \E i \in DOMAIN reqs : getPratoById(i)
    \/ \E i \in DOMAIN reqs : getCategoriaByIdUpdate(i)
    \/ \E i \in DOMAIN reqs : updatePrato(i)
    \/ \E i \in DOMAIN reqs : updateDisponibilidadePrato(i)

KeepInit == MonInit /\ GateOff /\ DbInit("prisma") /\ AppOff

SpecKeep == KeepInit /\ [][KeepNext]_vars

StoredIds(ps) == {p.id_prato : p \in ps}

\* C25: no step removes a stored dish id, and a dish that the admin fetch by
\* id once returned is still stored under the id it was returned with.
C25_DishesAreKept ==
    /\ [][StoredIds(pratos) \subseteq StoredIds(pratos')]_vars
    /\ [](\A i \in DOMAIN reqs :
            (reqs[i].op = "getPratoPorId" /\ reqs[i].status = 200)
               => findUnique(pratos, reqs[i].prato.id_prato) # NoPrato)

\* dish 3 was fetched by the admin route and renamed afterwards: it is
\* stored under id 3 with its new name
C25_Witness ==
    /\ Len(reqs) = 2
    /\ reqs[1].op = "getPratoPorId" /\ reqs[1].status = 200
    /\ reqs[1].prato = SeedPrato(3)
    /\ reqs[2].op = "atualizarPrato" /\ reqs[2].status = 200
    /\ findUnique(pratos, 3).nome_prato = <<"P", "a", "o">>

-----------------------------------------------------------------------------
(* The category of a stored dish: creates and updates that name existing   *)
(* categories, categories that do not exist, and no category at all.       *)

\* id_categoria as 1, "4", 5, 99, "0" and "abc"
CategoryIds ==
    { Number(Num(1, 1)), Str(<<"4">>), Number(Num(5, 1)), Number(Num(99, 1)),
      Str(<<"0">>), Str(<<"a", "b", "c">>) }

CategoryCreates == { [BoloBody EXCEPT !.id_categoria = id] : id \in CategoryIds }

\* category 99 alone, and each category next to a new name and price
CategoryUpdates ==
    { [EmptyBody EXCEPT !.id_categoria = Number(Num(99, 1))] }
    \cup { [EmptyBody EXCEPT !.nome_prato = Pao, !.preco = Number(Num(9, 1)),
                             !.id_categoria = id] : id \in CategoryIds }

CategoryNext ==
    \/ \E body \in CategoryCreates : Arrived < MaxOps /\ criarPrato(body)
    \/ \E i \in DOMAIN reqs : getCategoriaById(i)
    \/ \E i \in DOMAIN reqs : findFirst(i)
    \/ \E i \in DOMAIN reqs : create(i)
    \/ \E body \in CategoryUpdates : Arrived < MaxOps /\ atualizarPrato(<<"3">>, body)
    \/ \E i \in DOMAIN reqs : getPratoById(i)
    \/ \E i \in DOMAIN reqs : getCategoriaByIdUpdate(i)
    \/ \E i \in DOMAIN reqs : updatePrato(i)

CategoryInit == MonInit /\ GateOff /\ DbInit("prisma") /\ AppOff

SpecCategory == CategoryInit /\ [][CategoryNext]_vars

\* the body names a category, by a number or by a text that parses to one,
\* and no category has that id
NamesNoCategory(body) ==
    /\ body.id_categoria # Undefined
    /\ IsFinite(parseInt(body.id_categoria))
    /\ parseInt(body.id_categoria).n \notin Categorias

-----------------------------------------------------------------------------
(* The price of a new dish.                                                *)

\* a name, a description and an existing category, and some price
OtherFieldsValid(body) ==
    /\ Present(body.nome_prato) /\ body.nome_prato.t = "string"
    /\ Present(body.descricao) /\ body.descricao.t = "string"
    /\ body.id_categoria # Undefined
    /\ IsFinite(parseInt(body.id_categoria))
    /\ parseInt(body.id_categoria).n \in Categorias
    /\ body.preco # Undefined

\* C27: a create whose other fields are valid, running alone on a database
\* whose sequence is past the seeded ids, is answered 201 exactly when its
\* price parses to a non-negative number, zero included; otherwise it is
\* answered 400 and nothing is stored
C27_PriceDecides ==
    \A i \in DOMAIN reqs :
        (/\ Len(reqs) = 1 /\ seq >= SeedCount(backend)
         /\ reqs[i].op = "criarPrato" /\ reqs[i].pc = "done"
         /\ OtherFieldsValid(reqs[i].body))
        => IF ~InvalidPrice(parseFloat(reqs[i].body.preco))
           THEN reqs[i].status = 201
           ELSE reqs[i].status = 400 /\ pratos = Seeded

-----------------------------------------------------------------------------
(* PUT requests the controller refuses.                                    *)

\* bodies of PUT requests: a blank name, a negative and an unparseable price
\* and an unknown category, each next to fields that are valid, and a body
\* the controller accepts
RefusedUpdates ==
    { [EmptyBody EXCEPT !.nome_prato = Str(<<" ", " ">>),
                        !.preco = Str(<<"1", "2", ".", "5", "0">>),
                        !.disponivel = Bool(TRUE)],
      [EmptyBody EXCEPT !.nome_prato = Bolo, !.preco = Str(<<"-", "5">>)],
      [EmptyBody EXCEPT !.descricao = Str(<<" ", "y">>),
                        !.preco = Str(<<"a", "b", "c">>)],
      [EmptyBody EXCEPT !.nome_prato = Bolo, !.preco = Number(Num(9, 1)),
                        !.id_categoria = Number(Num(99, 1))],
      [EmptyBody EXCEPT !.nome_prato = Pao, !.preco = Number(Num(9, 1))] }

RefuseNext ==
    \/ \E id \in {<<"3">>, <<"9", "9">>}, body \in RefusedUpdates :
          Arrived < MaxOps /\ atualizarPrato(id, body)
    \/ \E i \in DOMAIN reqs : getPratoById(i)
    \/ \E i \in DOMAIN reqs : getCategoriaByIdUpdate(i)
    \/ \E i \in DOMAIN reqs : updatePrato(i)

RefuseInit == MonInit /\ GateOff /\ DbInit("prisma") /\ AppOff

SpecRefuse == RefuseInit /\ [][RefuseNext]_vars

Refused(h) == h.op = "atualizarPrato" /\ h.pc = "done" /\ h.status \in {400, 404}

\* C28: no step of a PUT that is answered 400 or 404 changes a stored dish:
\* the step that answers it leaves the dishes as they are, it never got as
\* far as the update (its dadosAtualizacao was never handed over), and when
\* no other request ran the dishes are the seeded ones
C28_RefusedUpdateStoresNothing ==
    /\ [][\A i \in DOMAIN reqs :
            (reqs[i].pc # "done" /\ Refused(reqs'[i])) => pratos' = pratos]_vars
    /\ [](\A i \in DOMAIN reqs : Refused(reqs[i]) => reqs[i].dados = NoDados)
    /\ []((\A i \in DOMAIN reqs : Refused(reqs[i])) => pratos = Seeded)

\* a PUT for dish 3 with a new name, a new price and category 99 was answered
\* 400, one for dish 99 with a valid name and price 404, and dish 3 is as
\* seeded
C28_Witness ==
    /\ Len(reqs) = 2
    /\ reqs[1].id = <<"3">> /\ reqs[1].pc = "done" /\ reqs[1].status = 400
    /\ reqs[1].body.nome_prato = Bolo
    /\ reqs[1].body.id_categoria = Number(Num(99, 1))
    /\ reqs[2].id = <<"9", "9">> /\ reqs[2].pc = "done" /\ reqs[2].status = 404
    /\ reqs[2].body.nome_prato = Pao
    /\ findUnique(pratos, 3) = SeedPrato(3)

-----------------------------------------------------------------------------
(* Request starts, finishes and resetMetrics() in any order.               *)

LifeNext ==
    \/ Ticks(TickMs) < MaxTicks /\ Tick(TickMs)
    \/ \E req \in Requests :
          Started < MaxReq /\ Pending < MaxInflight /\ metricsCollector(req)
    \/ \E r \in BagToSet(inflight), sc \in StatusCodes : onFinish(r, sc)
    \/ CurrentGen < MaxResets /\ resetMetrics

SpecLife == MonOnly /\ [][LifeNext]_vars

\* C29: in every state reachable by request starts, finishes and
\* resetMetrics() in any order, averageResponseTime is a finite number that
\* is not negative
C29_AverageIsFinite ==
    /\ IsFinite(AverageOf(MetricsView))
    /\ AverageOf(MetricsView).n >= 0

RECURSIVE SumOfCounts(_)
SumOfCounts(map) ==
    IF DOMAIN map = {} THEN 0
    ELSE LET key == CHOOSE k \in DOMAIN map : TRUE
         IN  map[key] + SumOfCounts([k \in DOMAIN map \ {key} |-> map[k]])

\* C30: in every such state slowRequests + fastRequests is the sum of the
\* byStatus counts and is at most requests.total
C30_FinishedAreCounted ==
    LET finished == M("performance").slowRequests + M("performance").fastRequests
    IN  /\ finished = SumOfCounts(M("requests").byStatus)
        /\ finished <= M("requests").total

=============================================================================
